---- MODULE Spec2Model ----
(***************************************************************************)
(* Model of the tclllama binding (src/generic/tclllama.c): the session     *)
(* registry kept in the interpreter's command table, prompt and chat       *)
(* ingestion, and the generation loop with its three-tier shield and the   *)
(* streaming text buffer.  Text is modelled as sequences of byte values.   *)
(***************************************************************************)
EXTENDS Integers, Sequences, FiniteSets, TLC

(* ---------------------------------------------------------------------- *)
(* Program constants                                                        *)
(* ---------------------------------------------------------------------- *)
BUFFER_SIZE == 50
FLUSH_MARGIN == 20
PIECE_BUF == 512
DEFAULT_MAX_TOKENS == 4096
DEFAULT_N_CTX == 4096
MIN_N_CTX == 512
MAX_N_CTX == 32768
NPOS == -1
TCL_OK == 0
TCL_ERROR == 1

(* ---------------------------------------------------------------------- *)
(* Bounds of the model                                                      *)
(* ---------------------------------------------------------------------- *)
NumAddr == 2          \* addresses the allocator can hand out
MaxOps == 4           \* commands issued in a session-level behaviour
MaxCalls == 2         \* generate and chat calls among them
MaxPre == 2           \* filler tokens in front of a script body
LongPre == 22         \* a filler run long enough to trigger margin flushes
MaxPost == 24         \* filler tokens after a script body
MaxPredict == 4       \* largest explicit token budget tried
LongPiece == 60       \* bytes in the long single-token piece
\* sha256 commands issued in one run
MaxShaOps == 5

(* ---------------------------------------------------------------------- *)
(* Byte strings                                                             *)
(* ---------------------------------------------------------------------- *)
TAG_END_OF_TURN == <<60,101,110,100,95,111,102,95,116,117,114,110,62>>
TAG_START_OF_TURN == <<60,115,116,97,114,116,95,111,102,95,116,117,114,110,62>>
TAG_IM_END == <<60,124,105,109,95,101,110,100,124,62>>
TAG_EOT_ID == <<60,124,101,111,116,95,105,100,124,62>>
TAG_ENDOFTEXT == <<60,124,101,110,100,111,102,116,101,120,116,124,62>>

\* const char* tags[] in run_inference, in array order
tags == <<TAG_END_OF_TURN, TAG_START_OF_TURN, TAG_IM_END, TAG_EOT_ID, TAG_ENDOFTEXT>>

\* const char* partial_tags[] in run_inference: "<end", "<start", "<|im", "<|eot"
partial_tags == << <<60,101,110,100>>, <<60,115,116,97,114,116>>,
                   <<60,124,105,109>>, <<60,124,101,111,116>> >>

Min(S) == CHOOSE x \in S : \A y \in S : x <= y

\* std::string::substr(pos) and substr(0, n)
SubstrFrom(s, pos) == SubSeq(s, pos + 1, Len(s))
SubstrTo(s, n) == SubSeq(s, 1, n)

\* positions (0-based) at which sub occurs in s
Occurrences(s, sub) ==
    { i \in 0..(Len(s) - Len(sub)) : SubSeq(s, i + 1, i + Len(sub)) = sub }

\* std::string::find: first position of sub in s, or npos
Find(s, sub) ==
    IF Occurrences(s, sub) = {} THEN NPOS ELSE Min(Occurrences(s, sub))

\* a C string read up to its terminating NUL (Tcl_NewStringObj(p, -1))
CStr(s) ==
    IF \E i \in 1..Len(s) : s[i] = 0
    THEN SubstrTo(s, Min({ i \in 1..Len(s) : s[i] = 0 }) - 1)
    ELSE s

utf8_char_length(first_byte) ==
    IF first_byte < 128 THEN 1
    ELSE IF first_byte >= 192 /\ first_byte < 224 THEN 2
    ELSE IF first_byte >= 224 /\ first_byte < 240 THEN 3
    ELSE IF first_byte >= 240 /\ first_byte < 248 THEN 4
    ELSE 1

RECURSIVE Utf8Walk(_, _, _, _)
Utf8Walk(str, max_pos, pos, last_valid) ==
    IF pos < max_pos
    THEN LET char_len == utf8_char_length(str[pos + 1])
         IN  IF pos + char_len <= max_pos
             THEN Utf8Walk(str, max_pos, pos + char_len, pos + char_len)
             ELSE last_valid
    ELSE last_valid

find_last_utf8_boundary(str, max_pos) ==
    Utf8Walk(str, IF max_pos >= Len(str) THEN Len(str) ELSE max_pos, 0, 0)


(* ---------------------------------------------------------------------- *)
(* Backend capability surface: vocabulary, tokenizer, scripted sampler      *)
(* ---------------------------------------------------------------------- *)
\* a vocabulary entry: id, text piece, end-of-generation flag, control attribute
Tok(i, p) == [id |-> i, piece |-> p, eog |-> FALSE, ctrl |-> FALSE]
EogTok == [id |-> 1001, piece |-> <<>>, eog |-> TRUE, ctrl |-> FALSE]
CtrlTok == [id |-> 1002, piece |-> <<>>, eog |-> FALSE, ctrl |-> TRUE]
StopTok == Tok(1003, <<88>>)
EmptyTok == Tok(1004, <<>>)

\* llama_token_to_piece: bytes written, or minus the size needed when the
\* piece does not fit into a buffer of cap bytes
llama_token_to_piece(tok, cap) ==
    IF Len(tok.piece) <= cap THEN Len(tok.piece) ELSE 0 - Len(tok.piece)

\* llama_tokenize on a text of len bytes (one token per byte, plus BOS when
\* add_special): the count, or minus the count when it exceeds cap
llama_tokenize(len, cap, add_special) ==
    LET n == len + (IF add_special THEN 1 ELSE 0)
    IN  IF n <= cap THEN n ELSE 0 - n

\* one token per byte of s
Chars(s) == [i \in 1..Len(s) |-> Tok(s[i], <<s[i]>>)]
\* k filler tokens "a"
Fill(k) == [i \in 1..k |-> Tok(97, <<97>>)]
\* a piece of n filler bytes
Run(n) == [i \in 1..n |-> 97]

\* U+1F600 (4 bytes), U+20AC (3 bytes), U+00E9 (2 bytes)
Utf8_4 == <<240, 159, 152, 128>>
Utf8_3 == <<226, 130, 172>>
Utf8_2 == <<195, 169>>

\* s cut into two pieces after byte k
Split(s, k) == << Tok(2000 + Len(s) * 10 + k, SubSeq(s, 1, k)),
                  Tok(3000 + Len(s) * 10 + k, SubSeq(s, k + 1, Len(s))) >>

\* token sequences the scripted backend can be asked to sample
MarkerBodies == { Chars(tags[i]) : i \in 1..Len(tags) }
Utf8Bodies ==
    { Split(Utf8_4, k) : k \in 1..3 } \cup { Split(Utf8_3, k) : k \in 1..2 }
        \cup { Split(Utf8_2, 1) }
OtherBodies ==
    { <<>>, <<CtrlTok>>, <<StopTok>>, <<EmptyTok>>,
      << Tok(1005, Run(LongPiece)) >>,
      << Tok(1006, TAG_END_OF_TURN) >>,
      << Tok(1007, Utf8_4 \o TAG_IM_END) >>,
      << Tok(1008, SubSeq(TAG_EOT_ID, 1, 5)) >> }
Bodies == MarkerBodies \cup Utf8Bodies \cup OtherBodies

PreLens == 0..MaxPre \cup {LongPre}
PostLens == {0, MaxPost}
RichScripts ==
    { Fill(k) \o b \o Fill(m) : k \in PreLens, b \in Bodies, m \in PostLens }
\* two short scripts: one piece long enough for a margin flush, and text
\* followed by a marker
SmallScripts ==
    { << Tok(1005, Run(LongPiece)) >>,
      << Tok(97, <<97>>), Tok(1006, TAG_END_OF_TURN) >> }

(* ---------------------------------------------------------------------- *)
(* State                                                                    *)
(* ---------------------------------------------------------------------- *)
VARIABLES
    cmds,         \* handles registered as commands: "llama%p" of these addresses
    heap,         \* address -> LlamaState block (alloc = FALSE: not allocated)
    released,     \* handles llama::free has released so far
    nops,         \* commands issued so far
    ncalls,       \* generate and chat calls issued so far
    pc,           \* position of the command in progress
    cur,          \* LlamaState *state of the call in progress
    cb_name,      \* TRUE when the call has a -callback
    stop_ids,     \* std::vector<llama_token> stop_ids of the call
    script,       \* tokens the backend's sampler will return next
    id,           \* llama_token id sampled in the current iteration
    text_buffer,  \* std::string text_buffer
    resp,         \* Tcl_DString resp
    p_cnt,        \* int p_cnt
    max_tokens,   \* int max_tokens
    safe_len,     \* size_t safe_len of the pending margin flush
    frag,         \* fragment handed to the callback being evaluated
    sink,         \* fragments handed to the callback so far, with its verdict
    call,         \* record of the generate/chat call in progress or last made
    result,       \* outcome of the last completed command
    made,         \* every model, context and sampler chain created so far
    conf,         \* the last apply_options call: its argument, state before and after
    g_contexts,   \* static SHA256Context g_contexts[MAX_CONTEXTS]
    g_next_id,    \* static unsigned long g_next_id
    evp,          \* every EVP_MD_CTX created so far, with the times it was freed
    held,         \* ids of the sha256 handles the script has been given and keeps
    retired,      \* ids of the held handles finalized or swept since they were given
    sha_result    \* outcome of the last sha256 command

vars == <<cmds, heap, released, nops, ncalls, pc, cur, cb_name, stop_ids, script, id,
          text_buffer, resp, p_cnt, max_tokens, safe_len, frag, sink, call, result,
          made, conf, g_contexts, g_next_id, evp, held, retired,
          sha_result>>

(* ---------------------------------------------------------------------- *)
(* sha256.c: the registry of streaming contexts                             *)
(* ---------------------------------------------------------------------- *)
MAX_CONTEXTS == 256

\* an unsigned long is written as its two's-complement reading, whatever its
\* width: the largest value is -1, and the value after it is 0
ULONG_MAX == -1

Slots == 0..(MAX_CONTEXTS - 1)

\* a slot after memset(g_contexts, 0, ...): ctx NULL, in_use 0, id 0
ZeroSlot == [ctx |-> 0, in_use |-> FALSE, id |-> 0]

\* the first slot not in use takes the context and the next id, and
\* g_next_id++ moves the counter on; 0 when every slot is in use
register_context(ctx, reg, next) ==
    LET free == { i \in Slots : ~reg[i].in_use }
    IN  IF free = {}
        THEN [reg |-> reg, next |-> next, id |-> 0]
        ELSE [reg |-> [reg EXCEPT ![Min(free)] = [ctx |-> ctx, in_use |-> TRUE, id |-> next]],
              next |-> IF next = ULONG_MAX THEN 0 ELSE next + 1, id |-> next]

\* the context of the first slot in use under this id, NULL when there is none
get_context(wanted, reg) ==
    LET found == { i \in Slots : reg[i].in_use /\ reg[i].id = wanted }
    IN  IF found = {} THEN 0 ELSE reg[Min(found)].ctx

\* frees the context of the first slot in use under this id and zeroes the slot
unregister_context(wanted, reg, ev) ==
    LET found == { i \in Slots : reg[i].in_use /\ reg[i].id = wanted }
        i == Min(found)
    IN  IF found = {} THEN [reg |-> reg, evp |-> ev]
        ELSE [reg |-> [reg EXCEPT ![i] = ZeroSlot],
              evp |-> IF reg[i].ctx # 0 THEN [ev EXCEPT ![reg[i].ctx].frees = @ + 1] ELSE ev]

ShaResult(op, code, msg, n) ==
    [op |-> op, code |-> code, msg |-> msg, id |-> n, fate |-> "returned"]

\* what a command that hands these contexts to OpenSSL may do: anything once
\* one of them has been through EVP_MD_CTX_free already
Fates(ctxs) ==
    IF \E c \in ctxs : c # 0 /\ evp[c].frees > 0
    THEN {"returned", "killed"} ELSE {"returned"}

\* a sha256 command is issued; the llama commands' state stays as it is
NewShaCmd ==
    /\ nops < MaxShaOps
    /\ sha_result.fate # "killed"
    /\ nops' = nops + 1
    /\ UNCHANGED <<cmds, heap, released, ncalls, pc, cur, cb_name, stop_ids, script, id,
                   text_buffer, resp, p_cnt, max_tokens, safe_len, frag, sink, call,
                   result, made, conf>>

\* sha256::init.  outcome: "no_ctx" when EVP_MD_CTX_new returns NULL,
\* "no_digest" when EVP_DigestInit_ex fails, "ok" otherwise
Sha256Init_Cmd ==
    /\ NewShaCmd
    /\ \E outcome \in {"ok", "no_ctx", "no_digest"} :
          IF outcome = "no_ctx"
          THEN /\ sha_result' = ShaResult("init", TCL_ERROR, "Failed to create context", 0)
               /\ UNCHANGED <<g_contexts, g_next_id, evp, held, retired>>
          ELSE IF outcome = "no_digest"
          THEN /\ evp' = Append(evp, [frees |-> 1])
               /\ sha_result' = ShaResult("init", TCL_ERROR, "Failed to initialize digest", 0)
               /\ UNCHANGED <<g_contexts, g_next_id, held, retired>>
          ELSE LET ev == Append(evp, [frees |-> 0])
                   r == register_context(Len(ev), g_contexts, g_next_id)
               IN  /\ g_contexts' = r.reg
                   /\ g_next_id' = r.next
                   /\ UNCHANGED retired
                   /\ IF r.id = 0
                      THEN /\ evp' = [ev EXCEPT ![Len(ev)].frees = @ + 1]
                           /\ sha_result' = ShaResult("init", TCL_ERROR, "Too many contexts", 0)
                           /\ UNCHANGED held
                      ELSE /\ evp' = ev
                           /\ sha_result' = ShaResult("init", TCL_OK, "", r.id)
                           /\ held' = held \cup {r.id}

\* sha256::update.  The handle is a string that is no handle (sscanf reads
\* nothing: parsed is FALSE), "sha256ctx_0" or a handle the script holds; ok:
\* outcome of EVP_DigestUpdate
Sha256Update_Cmd ==
    /\ NewShaCmd
    /\ UNCHANGED <<g_contexts, g_next_id, evp, held, retired>>
    /\ \E h \in held \cup {0}, parsed \in BOOLEAN, ok \in BOOLEAN :
          /\ parsed \/ h = 0
          /\ IF ~parsed
             THEN sha_result' = ShaResult("update", TCL_ERROR, "Invalid handle", h)
             ELSE IF get_context(h, g_contexts) = 0
             THEN sha_result' = ShaResult("update", TCL_ERROR, "Context not found", h)
             ELSE \E fate \in Fates({get_context(h, g_contexts)}) :
                     sha_result' = [(IF ok THEN ShaResult("update", TCL_OK, "", h)
                                     ELSE ShaResult("update", TCL_ERROR,
                                                    "Failed to update digest", h))
                                    EXCEPT !.fate = fate]

\* sha256::final, on the same handles.  ok: outcome of EVP_DigestFinal_ex
Sha256Final_Cmd ==
    /\ NewShaCmd
    /\ \E h \in held \cup {0}, parsed \in BOOLEAN, ok \in BOOLEAN :
          /\ parsed \/ h = 0
          /\ IF ~parsed
             THEN /\ sha_result' = ShaResult("final", TCL_ERROR, "Invalid handle", h)
                  /\ UNCHANGED <<g_contexts, g_next_id, evp, held, retired>>
             ELSE IF get_context(h, g_contexts) = 0
             THEN /\ sha_result' = ShaResult("final", TCL_ERROR, "Context not found", h)
                  /\ UNCHANGED <<g_contexts, g_next_id, evp, held, retired>>
             ELSE \E fate \in Fates({get_context(h, g_contexts)}) :
                  \E u \in {unregister_context(h, g_contexts, evp)} :
                     /\ sha_result' = [(IF ok THEN ShaResult("final", TCL_OK, "", h)
                                        ELSE ShaResult("final", TCL_ERROR,
                                                       "Failed to finalize digest", h))
                                       EXCEPT !.fate = fate]
                     /\ g_contexts' = u.reg
                     /\ evp' = u.evp
                     /\ retired' = retired \cup ({h} \cap held)
                     /\ UNCHANGED <<g_next_id, held>>

\* sha256::cleanup: every slot in use is freed and zeroed
Sha256Cleanup_Cmd ==
    LET used == { i \in Slots : g_contexts[i].in_use }
        ctxs == { g_contexts[i].ctx : i \in used } \ {0}
    IN  /\ NewShaCmd
        /\ g_contexts' = [i \in Slots |-> ZeroSlot]
        /\ evp' = [c \in 1..Len(evp) |-> IF c \in ctxs
                                         THEN [frees |-> evp[c].frees + 1] ELSE evp[c]]
        /\ \E fate \in Fates(ctxs) :
              sha_result' = [ShaResult("cleanup", TCL_OK, "Freed contexts", Cardinality(used))
                             EXCEPT !.fate = fate]
        /\ retired' = retired \cup ({ g_contexts[i].id : i \in used } \cap held)
        /\ UNCHANGED <<g_next_id, held>>

Addr == 1..NumAddr

\* a block of memory not (or no longer) allocated
FreeBlock == [alloc |-> FALSE, n_ctx |-> 0, n_past |-> 0, n_predict |-> 0,
              n_eval |-> 0, n_gen |-> 0, t_eval_ms |-> 0, t_gen_ms |-> 0,
              model |-> 0, ctx |-> 0, sampler |-> 0, kv |-> 0,
              temp |-> 0, top_k |-> 0, top_p |-> 0, min_p |-> 0,
              repeat_penalty |-> 0, repeat_last_n |-> 0, mirostat |-> 0,
              mirostat_tau |-> 0, mirostat_eta |-> 0, seed |-> 0]

\* memset + set_defaults, then state->n_ctx = n_ctx
\* (model, ctx and sampler are 0, the null pointer, after the memset; kv is
\* the number of cells of the context's cache in use; the float fields are
\* kept in hundredths; t_eval_ms and t_gen_ms hold 0 for 0.0 and otherwise
\* the ordinal of the call whose ingestion or loop they measured)
set_defaults(n_ctx) == [alloc |-> TRUE, n_ctx |-> n_ctx, n_past |-> 0,
                        n_predict |-> -1, n_eval |-> 0, n_gen |-> 0,
                        t_eval_ms |-> 0, t_gen_ms |-> 0,
                        model |-> 0, ctx |-> 0, sampler |-> 0, kv |-> 0,
                        temp |-> 80, top_k |-> 40, top_p |-> 95, min_p |-> 5,
                        repeat_penalty |-> 110, repeat_last_n |-> 64,
                        mirostat |-> 0, mirostat_tau |-> 500,
                        mirostat_eta |-> 10, seed |-> -1]

NoCall == [op |-> "none", h |-> 0, stale |-> FALSE, pos0 |-> 0, pos_ing |-> 0, n_tok |-> 0,
           kv0 |-> 0, kv_ing |-> 0, text |-> <<>>, nested |-> "none",
           lp |-> 0, ls |-> 0, n_script |-> 0, fed |-> {},
           reset |-> FALSE, with_system |-> FALSE, decodes |-> 0,
           acc_text |-> <<>>, n_acc |-> 0, found_tag |-> FALSE,
           dropped |-> FALSE, out |-> {}, mt |-> <<>>]

\* the dictionary llama::info returns: context figures and telemetry
InfoDict(st) ==
    [n_ctx |-> st.n_ctx, n_past |-> st.n_past, n_ctx_used |-> st.n_past,
     n_ctx_available |-> st.n_ctx - st.n_past,
     t_eval_ms |-> st.t_eval_ms, t_gen_ms |-> st.t_gen_ms,
     n_eval |-> st.n_eval, n_gen |-> st.n_gen,
     eval_tps |-> IF st.t_eval_ms > 0 THEN (st.n_eval * 1000) \div st.t_eval_ms ELSE 0,
     gen_tps |-> IF st.t_gen_ms > 0 THEN (st.n_gen * 1000) \div st.t_gen_ms ELSE 0]

\* the result of a command other than llama::info
NoInfo == InfoDict(FreeBlock)

Result(op, h, stale, code, msg, text) ==
    [op |-> op, h |-> h, stale |-> stale, code |-> code, msg |-> msg, text |-> text,
     info |-> NoInfo]

\* no command has completed yet, or one is in progress
NoResult == Result("none", 0, FALSE, TCL_OK, "", <<>>)

\* Tcl_GetCommandInfo(interp, name, &info) != 0
Tcl_GetCommandInfo(h) == h \in cmds

(* ---------------------------------------------------------------------- *)
(* Backend objects and apply_options                                        *)
(* ---------------------------------------------------------------------- *)
\* llama_model_load_from_file, llama_init_from_model, llama_sampler_chain_init:
\* a new object, known by its index in made
Make(mk, kind, stages) == Append(mk, [kind |-> kind, frees |-> 0, stages |-> stages])

\* llama_model_free, llama_free, llama_sampler_free
Dispose(mk, i) == [mk EXCEPT ![i].frees = @ + 1]

\* the names apply_options looks up, with the field each one is stored in
OptField == [temperature |-> "temp", top_k |-> "top_k", top_p |-> "top_p",
             min_p |-> "min_p", repeat_penalty |-> "repeat_penalty",
             repeat_last_n |-> "repeat_last_n", num_predict |-> "n_predict",
             mirostat |-> "mirostat", mirostat_tau |-> "mirostat_tau",
             mirostat_eta |-> "mirostat_eta", seed |-> "seed"]

OptNames == DOMAIN OptField

\* options_obj == NULL
NullOptions == [given |-> FALSE, dict |-> <<>>]

\* an options dictionary; a value is [ok |-> it converts to a number, v |-> n]
Options(d) == [given |-> TRUE, dict |-> d]

\* a lookup that writes 0 when the key is missing or does not convert
GetOptOrZero(options_obj, name, target) ==
    IF name \in DOMAIN options_obj.dict /\ options_obj.dict[name].ok
    THEN options_obj.dict[name].v
    ELSE 0

\* GET_D_FLOAT / GET_D_INT: the target is written only when the key is in the
\* dictionary and its value converts
GetOpt(options_obj, name, target) ==
    IF name \in DOMAIN options_obj.dict /\ options_obj.dict[name].ok
    THEN options_obj.dict[name].v
    ELSE target

\* the validation with the upper limits alone
ClampOptionsUpper(st) ==
    [st EXCEPT !.temp = IF @ > 200 THEN 200 ELSE @,
               !.top_p = IF @ > 100 THEN 100 ELSE @,
               !.min_p = IF @ > 100 THEN 100 ELSE @]

\* the range validation of apply_options
ClampOptions(st) ==
    [st EXCEPT !.temp = IF @ < 0 THEN 0 ELSE IF @ > 200 THEN 200 ELSE @,
               !.top_k = IF @ < 1 THEN 1 ELSE @,
               !.top_p = IF @ < 0 THEN 0 ELSE IF @ > 100 THEN 100 ELSE @,
               !.min_p = IF @ < 0 THEN 0 ELSE IF @ > 100 THEN 100 ELSE @,
               !.repeat_penalty = IF @ < 0 THEN 100 ELSE @,
               !.n_predict = IF @ < -1 THEN -1 ELSE @]

\* the scalar part of apply_options: the GET_D_ lookups, then the validation
ReadOptions(options_obj, st) ==
    IF ~options_obj.given
    THEN st
    ELSE ClampOptions(
           [st EXCEPT !.temp = GetOpt(options_obj, "temperature", @),
                      !.top_k = GetOpt(options_obj, "top_k", @),
                      !.top_p = GetOpt(options_obj, "top_p", @),
                      !.min_p = GetOpt(options_obj, "min_p", @),
                      !.repeat_penalty = GetOpt(options_obj, "repeat_penalty", @),
                      !.repeat_last_n = GetOpt(options_obj, "repeat_last_n", @),
                      !.n_predict = GetOpt(options_obj, "num_predict", @),
                      !.mirostat = GetOpt(options_obj, "mirostat", @),
                      !.mirostat_tau = GetOpt(options_obj, "mirostat_tau", @),
                      !.mirostat_eta = GetOpt(options_obj, "mirostat_eta", @),
                      !.seed = GetOpt(options_obj, "seed", @)])

\* a chain that gets the v2 stage for every mirostat value other than 0
SamplerStagesAnyMirostat(st) ==
    <<"temp", "top_k", "top_p", "min_p", "penalties">>
    \o (IF st.mirostat = 1 THEN <<"mirostat">> ELSE <<>>)
    \o (IF st.mirostat # 0 THEN <<"mirostat_v2">> ELSE <<>>)
    \o <<"dist">>

\* the llama_sampler_chain_add calls of apply_options, in their order
SamplerStages(st) ==
    <<"temp", "top_k", "top_p", "min_p", "penalties">>
    \o (IF st.mirostat = 1 THEN <<"mirostat">>
        ELSE IF st.mirostat = 2 THEN <<"mirostat_v2">> ELSE <<>>)
    \o <<"dist">>

\* apply_options without the llama_sampler_free of the chain it replaces
apply_options_keep(options_obj, st, mk) ==
    LET s1 == ReadOptions(options_obj, st)
        mk2 == Make(mk, "sampler", SamplerStages(s1))
    IN  [st |-> [s1 EXCEPT !.sampler = Len(mk2)], made |-> mk2]

\* apply_options: the new state block and the objects after the chain rebuild
apply_options(options_obj, st, mk) ==
    LET s1 == ReadOptions(options_obj, st)
        mk1 == IF s1.sampler # 0 THEN Dispose(mk, s1.sampler) ELSE mk
        mk2 == Make(mk1, "sampler", SamplerStages(s1))
    IN  [st |-> [s1 EXCEPT !.sampler = Len(mk2)], made |-> mk2]

\* no apply_options call has been made by the command
NoConf == [called |-> FALSE, options |-> NullOptions, pre |-> FreeBlock,
           post |-> FreeBlock]

Conf(options_obj, pre, post) ==
    [called |-> TRUE, options |-> options_obj, pre |-> pre, post |-> post]


(* ---------------------------------------------------------------------- *)
(* run_inference: the streaming buffer                                      *)
(* ---------------------------------------------------------------------- *)
\* an append that keeps everything
AppendUntrimmed(buf, piece) == buf \o piece

\* text_buffer.append(piece, n), then keep the last BUFFER_SIZE bytes
AppendPiece(buf, piece) ==
    LET b == buf \o piece
    IN  IF Len(b) > BUFFER_SIZE THEN SubstrFrom(b, Len(b) - BUFFER_SIZE) ELSE b

\* the chain of text_buffer.find(...) != npos tests
FoundTag(buf) == \E i \in 1..Len(tags) : Find(buf, tags[i]) # NPOS

\* the for loop over tags[]: position of the first tag of the array that occurs
TagPos(buf) ==
    LET first == Min({ i \in 1..Len(tags) : Find(buf, tags[i]) # NPOS })
    IN  Find(buf, tags[first])

\* length of before_tag that is appended and handed to the callback
TagSafeLen(buf) ==
    LET before_tag == SubstrTo(buf, TagPos(buf))
    IN  IF before_tag # <<>>
        THEN find_last_utf8_boundary(before_tag, Len(before_tag))
        ELSE 0

\* safe_len of the margin flush (0: nothing is flushed)
MarginSafeLen(buf) ==
    IF Len(buf) > FLUSH_MARGIN
    THEN find_last_utf8_boundary(buf, Len(buf) - FLUSH_MARGIN)
    ELSE 0

\* the loop over partial_tags[]
HasPartialTag(buf) == \E i \in 1..Len(partial_tags) : Find(buf, partial_tags[i]) # NPOS

\* text_buffer is the tail of the text appended so far (total bytes): the
\* places in that text, counted from 1, of the first n bytes of a buffer of
\* buflen bytes
Slice(total, buflen, n) == (total - buflen + 1)..(total - buflen + n)

\* max_tokens = (state->n_predict > 0) ? state->n_predict : 4096
MaxTokens(n_predict) == IF n_predict > 0 THEN n_predict ELSE DEFAULT_MAX_TOKENS

\* llama_sampler_sample on the scripted backend: end of generation once the
\* script is used up
Sample(scr) == IF scr = <<>> THEN EogTok ELSE Head(scr)

\* the shield with tier 1a alone
ShieldEogOnly(tok, stops) == tok.eog

\* the shield without tier 2, the caller's stop ids
ShieldWithoutStopIds(tok, stops) == tok.eog \/ tok.ctrl

\* shield tiers 1a, 1b and 2
ShieldFires(tok, stops) == tok.eog \/ tok.ctrl \/ tok.id \in stops

\* llama_decode can succeed only while the batch fits the context
DecodeOutcomes(end_pos, n_ctx) == IF end_pos <= n_ctx THEN BOOLEAN ELSE {FALSE}

(* ---------------------------------------------------------------------- *)
(* run_inference: the loop, one action per stretch between external calls   *)
(* ---------------------------------------------------------------------- *)
\* entry of run_inference
RunInference(st, cb, stops, scr) ==
    /\ pc' = "loop"
    /\ cb_name' = cb
    /\ stop_ids' = stops
    /\ script' = scr
    /\ text_buffer' = <<>>
    /\ resp' = <<>>
    /\ max_tokens' = MaxTokens(st.n_predict)
    /\ p_cnt' = 0
    /\ sink' = <<>>
    /\ id' = EogTok
    /\ safe_len' = 0
    /\ frag' = <<>>

\* from the loop condition to the next callback, decode or loop exit
LoopHead ==
    /\ pc = "loop"
    /\ UNCHANGED <<g_contexts, g_next_id, evp, held, retired, sha_result>>
    /\ UNCHANGED <<made, conf, cmds, heap, released, nops, ncalls, cur, cb_name, stop_ids, p_cnt,
                   max_tokens, sink, result>>
    /\ IF ~(p_cnt < max_tokens) \/ heap[cur].n_past >= heap[cur].n_ctx
       THEN /\ pc' = "final"
            /\ UNCHANGED <<script, id, text_buffer, resp, safe_len, frag, call>>
       ELSE \E tok \in {Sample(script)} :
            \E n \in {llama_token_to_piece(tok, PIECE_BUF - 1)} :
            \E buf \in {AppendPiece(text_buffer, tok.piece)} :
                /\ script' = IF script = <<>> THEN script ELSE Tail(script)
                /\ id' = tok
                /\ IF ShieldFires(tok, stop_ids)
                   THEN /\ pc' = "final"
                        /\ UNCHANGED <<text_buffer, resp, safe_len, frag, call>>
                   ELSE IF ~(n > 0 /\ n < PIECE_BUF)
                   THEN /\ pc' = "decode"
                        /\ UNCHANGED <<text_buffer, resp, safe_len, frag, call>>
                   ELSE IF FoundTag(buf)
                   THEN /\ text_buffer' = buf
                        /\ call' = [call EXCEPT !.acc_text = @ \o tok.piece,
                                                !.n_acc = @ + 1,
                                                !.found_tag = TRUE,
                                                !.out = @ \cup
                                                    Slice(Len(call.acc_text) + Len(tok.piece),
                                                          Len(buf), TagSafeLen(buf))]
                        /\ safe_len' = TagSafeLen(buf)
                        /\ IF TagSafeLen(buf) > 0
                           THEN /\ resp' = resp \o SubstrTo(buf, TagSafeLen(buf))
                                /\ frag' = IF cb_name THEN SubstrTo(buf, TagSafeLen(buf))
                                                    ELSE frag
                                /\ pc' = IF cb_name THEN "cb_tag" ELSE "final"
                           ELSE /\ pc' = "final"
                                /\ UNCHANGED <<resp, frag>>
                   ELSE /\ call' = [call EXCEPT !.acc_text = @ \o tok.piece,
                                                !.n_acc = @ + 1,
                                                !.out = @ \cup
                                                    Slice(Len(call.acc_text) + Len(tok.piece),
                                                          Len(buf), MarginSafeLen(buf))]
                        /\ IF MarginSafeLen(buf) > 0
                           THEN /\ safe_len' = MarginSafeLen(buf)
                                /\ resp' = resp \o SubstrTo(buf, MarginSafeLen(buf))
                                /\ frag' = IF cb_name
                                            THEN CStr(SubstrTo(buf, MarginSafeLen(buf)))
                                            ELSE frag
                                /\ IF cb_name
                                   THEN /\ pc' = "cb_margin"
                                        /\ text_buffer' = buf
                                   ELSE /\ pc' = "decode"
                                        /\ text_buffer' = SubstrFrom(buf, MarginSafeLen(buf))
                           ELSE /\ pc' = "decode"
                                /\ text_buffer' = buf
                                /\ UNCHANGED <<resp, safe_len, frag>>

\* Tcl_EvalObjEx of the callback on the text before a tag; its status is not read
CallbackTag ==
    /\ pc = "cb_tag"
    /\ UNCHANGED <<g_contexts, g_next_id, evp, held, retired, sha_result>>
    /\ \E ok \in BOOLEAN :
         sink' = Append(sink, [frag |-> frag, ok |-> ok, at |-> "tag"])
    /\ pc' = "final"
    /\ UNCHANGED <<made, conf, cmds, heap, released, nops, ncalls, cur, cb_name, stop_ids, script, id,
                   text_buffer, resp, p_cnt, max_tokens, safe_len, frag, call, result>>

\* Tcl_EvalObjEx of the callback on a margin flush
CallbackMargin ==
    /\ pc = "cb_margin"
    /\ UNCHANGED <<g_contexts, g_next_id, evp, held, retired, sha_result>>
    /\ \E ok \in BOOLEAN :
         /\ sink' = Append(sink, [frag |-> frag, ok |-> ok, at |-> "margin"])
         /\ IF ok
            THEN /\ text_buffer' = SubstrFrom(text_buffer, safe_len)
                 /\ pc' = "decode"
                 /\ UNCHANGED result
            ELSE /\ pc' = "idle"
                 /\ result' = Result(call.op, call.h, call.stale, TCL_ERROR,
                                     "callback error", <<>>)
                 /\ UNCHANGED text_buffer
    /\ UNCHANGED <<made, conf, cmds, heap, released, nops, ncalls, cur, cb_name, stop_ids, script, id,
                   resp, p_cnt, max_tokens, safe_len, frag, call>>

\* fill_batch, state->n_past++, llama_decode of the accepted token
Decode ==
    /\ pc = "decode"
    /\ UNCHANGED <<g_contexts, g_next_id, evp, held, retired, sha_result>>
    /\ \E ok \in DecodeOutcomes(heap[cur].n_past + 1, heap[cur].n_ctx) :
         /\ heap' = [heap EXCEPT ![cur].n_past = @ + 1,
                                  ![cur].kv = IF ok THEN @ + 1 ELSE @]
         /\ call' = [call EXCEPT !.decodes = @ + 1, !.fed = @ \cup {id.id}]
         /\ IF ok
            THEN /\ p_cnt' = p_cnt + 1
                 /\ pc' = "loop"
                 /\ UNCHANGED result
            ELSE /\ pc' = "idle"
                 /\ result' = Result(call.op, call.h, call.stale, TCL_ERROR,
                                     "Decode failed during generation", <<>>)
                 /\ UNCHANGED p_cnt
    /\ UNCHANGED <<made, conf, cmds, released, nops, ncalls, cur, cb_name, stop_ids, script, id,
                   text_buffer, resp, max_tokens, safe_len, frag, sink>>

\* telemetry, Tcl_SetObjResult(resp), return TCL_OK
Epilogue(text) ==
    /\ heap' = [heap EXCEPT ![cur].n_gen = p_cnt, ![cur].t_gen_ms = ncalls]
    /\ result' = Result(call.op, call.h, call.stale, TCL_OK, "", CStr(text))
    /\ pc' = "idle"

\* after the loop: flush what is left unless it holds a partial tag
FinalFlush ==
    /\ pc = "final"
    /\ UNCHANGED <<g_contexts, g_next_id, evp, held, retired, sha_result>>
    /\ UNCHANGED <<made, conf, cmds, released, nops, ncalls, cur, cb_name, stop_ids, script, id,
                   text_buffer, p_cnt, max_tokens, safe_len, sink>>
    /\ IF text_buffer # <<>> /\ ~HasPartialTag(text_buffer)
       THEN /\ resp' = resp \o text_buffer
            /\ call' = [call EXCEPT !.out = @ \cup Slice(Len(call.acc_text),
                                                          Len(text_buffer),
                                                          Len(text_buffer))]
            /\ IF cb_name
               THEN /\ frag' = CStr(text_buffer)
                    /\ pc' = "cb_final"
                    /\ UNCHANGED <<heap, result>>
               ELSE /\ Epilogue(resp \o text_buffer)
                    /\ UNCHANGED frag
       ELSE /\ call' = [call EXCEPT !.dropped = (text_buffer # <<>>)]
            /\ Epilogue(resp)
            /\ UNCHANGED <<resp, frag>>

\* Tcl_EvalObjEx of the callback on the final flush; its status is not read
CallbackFinal ==
    /\ pc = "cb_final"
    /\ UNCHANGED <<g_contexts, g_next_id, evp, held, retired, sha_result>>
    /\ \E ok \in BOOLEAN :
         sink' = Append(sink, [frag |-> frag, ok |-> ok, at |-> "final"])
    /\ Epilogue(resp)
    /\ UNCHANGED <<made, conf, cmds, released, nops, ncalls, cur, cb_name, stop_ids, script, id,
                   text_buffer, resp, p_cnt, max_tokens, safe_len, frag, call>>

(* ---------------------------------------------------------------------- *)
(* Commands                                                                 *)
(* ---------------------------------------------------------------------- *)

\* the locals of an earlier call are gone when the next command starts
Forget ==
    /\ cb_name' = FALSE
    /\ stop_ids' = {}
    /\ script' = <<>>
    /\ id' = EogTok
    /\ text_buffer' = <<>>
    /\ resp' = <<>>
    /\ p_cnt' = 0
    /\ max_tokens' = 0
    /\ safe_len' = 0
    /\ frag' = <<>>
    /\ sink' = <<>>

\* a command starts only when none is in progress
NewCmd(limit) ==
    /\ pc = "idle"
    /\ nops < limit
    /\ nops' = nops + 1
    /\ UNCHANGED ncalls
    /\ UNCHANGED <<g_contexts, g_next_id, evp, held, retired, sha_result>>

\* the same for a generate or chat call
NewCall(limit, calls) ==
    /\ pc = "idle"
    /\ nops < limit
    /\ ncalls < calls
    /\ nops' = nops + 1
    /\ ncalls' = ncalls + 1
    /\ UNCHANGED <<g_contexts, g_next_id, evp, held, retired, sha_result>>

InvalidHandle(op, h) ==
    /\ result' = Result(op, h, h \in released, TCL_ERROR, "Invalid handle", <<>>)
    /\ pc' = "idle"

\* the prompt and the -system string: lp and ls bytes
PromptText(lp) == [i \in 1..lp |-> 112]
SystemText(ls) == [i \in 1..ls |-> 115]

\* full_prompt without the test of the position
full_prompt_any_turn(system_msg, prompt, n_past) ==
    IF system_msg # <<>>
    THEN system_msg \o <<10, 10>> \o prompt
    ELSE prompt

\* full_prompt: the -system string is put in front only at position 0
full_prompt(system_msg, prompt, n_past) ==
    IF system_msg # <<>> /\ n_past = 0
    THEN system_msg \o <<10, 10>> \o prompt
    ELSE prompt

\* Llama_Generate_Cmd with the capacity test taken out of the ingestion: the
\* batch is submitted whatever its size
GenerateIngestUnchecked(st, lp, ls, reset, mt, ok) ==
    LET st1 == IF mt # <<>> THEN [st EXCEPT !.n_predict = mt[1]] ELSE st
        st2 == IF reset THEN [st1 EXCEPT !.n_past = 0, !.kv = 0] ELSE st1
        with_system == ls > 0 /\ st2.n_past = 0
        text == full_prompt(SystemText(ls), PromptText(lp), st2.n_past)
        len == Len(text)
        n_tok == llama_tokenize(len, len + 256, st2.n_past = 0)
        base == [st |-> st2, n_tok |-> n_tok, pos_ing |-> st2.n_past,
                 kv_ing |-> st2.kv, text |-> text, lp |-> lp, ls |-> ls,
                 with_system |-> with_system, decodes |-> 0, run |-> FALSE,
                 code |-> TCL_ERROR, msg |-> "", mt |-> mt]
    IN  IF n_tok < 0
        THEN [base EXCEPT !.msg = "Tokenization failed"]
        ELSE IF ~ok
        THEN [base EXCEPT !.st = [st2 EXCEPT !.n_past = @ + n_tok],
                          !.decodes = 1, !.msg = "Decode failed"]
        ELSE [base EXCEPT !.st = [st2 EXCEPT !.n_past = @ + n_tok, !.n_eval = n_tok,
                                             !.kv = @ + n_tok],
                          !.decodes = 1, !.run = TRUE, !.code = TCL_OK]

\* Llama_Generate_Cmd from option parsing to the prompt decode.  lp, ls: bytes
\* of the prompt and of the -system string (0: none); mt: -max_tokens (<<>>:
\* none); ok: outcome of llama_decode
GenerateIngest(st, lp, ls, reset, mt, ok) ==
    LET st1 == IF mt # <<>> THEN [st EXCEPT !.n_predict = mt[1]] ELSE st
        st2 == IF reset THEN [st1 EXCEPT !.n_past = 0, !.kv = 0] ELSE st1
        with_system == ls > 0 /\ st2.n_past = 0
        text == full_prompt(SystemText(ls), PromptText(lp), st2.n_past)
        len == Len(text)
        n_tok == llama_tokenize(len, len + 256, st2.n_past = 0)
        base == [st |-> st2, n_tok |-> n_tok, pos_ing |-> st2.n_past,
                 kv_ing |-> st2.kv, text |-> text, lp |-> lp, ls |-> ls,
                 with_system |-> with_system, decodes |-> 0, run |-> FALSE,
                 code |-> TCL_ERROR, msg |-> "", mt |-> mt]
    IN  IF n_tok < 0
        THEN [base EXCEPT !.msg = "Tokenization failed"]
        ELSE IF st2.n_past + n_tok >= st2.n_ctx
        THEN [base EXCEPT !.msg = "Context overflow"]
        ELSE IF ~ok
        THEN [base EXCEPT !.st = [st2 EXCEPT !.n_past = @ + n_tok],
                          !.decodes = 1, !.msg = "Decode failed"]
        ELSE [base EXCEPT !.st = [st2 EXCEPT !.n_past = @ + n_tok, !.n_eval = n_tok,
                                             !.kv = @ + n_tok],
                          !.decodes = 1, !.run = TRUE, !.code = TCL_OK]

\* a chat that goes on from the position it finds
ChatNoReset(st) == st

\* chat is stateless: state->n_past = 0 and llama_kv_self_clear
ChatReset(st) == [st EXCEPT !.n_past = 0, !.kv = 0]

\* fmt_len of a chat whose messages argument is not a list
BadMessages == -2

\* a chat that reads -max_tokens before it looks at its messages argument
ChatBadMessagesStoring(st, mt) ==
    [st |-> IF mt # <<>> THEN [st EXCEPT !.n_predict = mt[1]] ELSE st,
     n_tok |-> 0, pos_ing |-> st.n_past, kv_ing |-> st.kv, text |-> <<>>,
     lp |-> BadMessages, ls |-> 0, with_system |-> FALSE, decodes |-> 0, run |-> FALSE,
     code |-> TCL_ERROR, msg |-> "Invalid messages list", mt |-> mt]

\* Llama_Chat returning at Tcl_ListObjGetElements: the option loop has not run,
\* no -max_tokens is read
ChatBadMessages(st, mt) ==
    [st |-> st, n_tok |-> 0, pos_ing |-> st.n_past, kv_ing |-> st.kv, text |-> <<>>,
     lp |-> BadMessages, ls |-> 0, with_system |-> FALSE, decodes |-> 0, run |-> FALSE,
     code |-> TCL_ERROR, msg |-> "Invalid messages list", mt |-> mt]

\* Llama_Chat from -max_tokens to the decode of the rendered messages.
\* fmt_len: bytes of the rendered template, negative when rendering failed
ChatIngest(st, fmt_len, mt, ok) ==
    LET st2 == IF mt # <<>> THEN [st EXCEPT !.n_predict = mt[1]] ELSE st
        n_tok == llama_tokenize(fmt_len, fmt_len + 1024, TRUE)
        base == [st |-> st2, n_tok |-> n_tok, pos_ing |-> st2.n_past,
                 kv_ing |-> st2.kv, text |-> <<>>, lp |-> fmt_len, ls |-> 0,
                 with_system |-> FALSE, decodes |-> 0, run |-> FALSE,
                 code |-> TCL_ERROR, msg |-> "", mt |-> mt]
    IN  IF fmt_len < 0
        THEN [base EXCEPT !.n_tok = 0, !.msg = "Template application failed"]
        ELSE IF n_tok < 0
        THEN [base EXCEPT !.msg = "Tokenization failed"]
        ELSE IF ~ok
        THEN [base EXCEPT !.st = [st2 EXCEPT !.n_past = @ + n_tok],
                          !.decodes = 1, !.msg = "Decode failed"]
        ELSE [base EXCEPT !.st = [st2 EXCEPT !.n_past = @ + n_tok, !.n_eval = n_tok,
                                             !.kv = @ + n_tok],
                          !.decodes = 1, !.run = TRUE, !.code = TCL_OK]

\* the part of both commands after ingestion: return the error or enter the loop
Ingested(op, h, reset, pos0, r, cb, stops, scr) ==
    /\ heap' = [heap EXCEPT ![h] = IF r.run THEN [r.st EXCEPT !.t_eval_ms = ncalls + 1]
                                             ELSE r.st]
    /\ cur' = h
    /\ call' = [op |-> op, h |-> h, stale |-> h \in released, pos0 |-> pos0,
                kv0 |-> heap[h].kv, kv_ing |-> r.kv_ing, text |-> r.text,
                nested |-> "none", lp |-> r.lp, ls |-> r.ls,
                n_script |-> Len(scr), fed |-> {},
                pos_ing |-> r.pos_ing, n_tok |-> r.n_tok, reset |-> reset,
                with_system |-> r.with_system, decodes |-> r.decodes,
                acc_text |-> <<>>, n_acc |-> 0, found_tag |-> FALSE,
                dropped |-> FALSE, out |-> {}, mt |-> r.mt]
    /\ IF r.run
       THEN /\ RunInference(r.st, cb, stops, scr)
            /\ result' = NoResult
       ELSE /\ pc' = "idle"
            /\ result' = Result(op, h, h \in released, r.code, r.msg, <<>>)
            /\ Forget

\* a command name of the interpreter that no llama::init created:
\* "llama::version", registered by Tclllama_Init with a NULL clientData
VersionCmd == NumAddr + 1

Handles == Addr \cup {VersionCmd}

\* Tcl_GetCommandInfo(interp, name, &info) != 0, for any command of the interpreter
CommandExists(h) == Tcl_GetCommandInfo(h) \/ h = VersionCmd

\* state = (LlamaState*)info.objClientData of a command that is no Session:
\* the handler reads and writes through a pointer that is no LlamaState, so
\* the process is killed or the command returns after touching foreign memory
NotASession(op, h) ==
    \E outcome \in {"killed", "returned"} :
        /\ pc' = IF outcome = "killed" THEN "undefined" ELSE "idle"
        /\ result' = Result(op, h, FALSE, TCL_OK, outcome, <<>>)

\* the -options argument of a call (<<>>: none): the state block and the
\* objects the option loop leaves
OptionLoop(opts, st, mk) ==
    IF opts = <<>> THEN [st |-> st, made |-> mk] ELSE apply_options(opts[1], st, mk)

OptionConf(opts, st, mk) ==
    IF opts = <<>> THEN NoConf ELSE Conf(opts[1], st, OptionLoop(opts, st, mk).st)

Llama_Generate_Cmd(h, lp, ls, reset, cb, stops, opts, mt, scr) ==
    /\ UNCHANGED <<cmds, released>>
    /\ IF ~CommandExists(h)
       THEN /\ InvalidHandle("generate", h)
            /\ Forget
            /\ call' = NoCall
            /\ conf' = NoConf
            /\ UNCHANGED <<heap, cur, made>>
       ELSE IF h = VersionCmd
       THEN /\ NotASession("generate", h)
            /\ Forget
            /\ call' = NoCall
            /\ conf' = NoConf
            /\ UNCHANGED <<heap, cur, made>>
       ELSE \E ok \in BOOLEAN :
            \E ao \in {OptionLoop(opts, heap[h], made)} :
               /\ made' = ao.made
               /\ conf' = OptionConf(opts, heap[h], made)
               /\ Ingested("generate", h, reset, heap[h].n_past,
                           GenerateIngest(ao.st, lp, ls, reset, mt, ok),
                           cb, stops, scr)

Llama_Chat(h, fmt_len, cb, stops, opts, mt, scr) ==
    /\ UNCHANGED <<cmds, released>>
    /\ IF ~CommandExists(h)
       THEN /\ InvalidHandle("chat", h)
            /\ Forget
            /\ call' = NoCall
            /\ conf' = NoConf
            /\ UNCHANGED <<heap, cur, made>>
       ELSE IF h = VersionCmd
       THEN /\ NotASession("chat", h)
            /\ Forget
            /\ call' = NoCall
            /\ conf' = NoConf
            /\ UNCHANGED <<heap, cur, made>>
       ELSE IF fmt_len = BadMessages
       THEN /\ conf' = NoConf
            /\ UNCHANGED made
            /\ Ingested("chat", h, TRUE, heap[h].n_past,
                        ChatBadMessages(ChatReset(heap[h]), mt), cb, stops, scr)
       ELSE \E ok \in DecodeOutcomes(llama_tokenize(fmt_len, fmt_len + 1024, TRUE),
                                       heap[h].n_ctx) :
            \E ao \in {OptionLoop(opts, ChatReset(heap[h]), made)} :
               /\ made' = ao.made
               /\ conf' = OptionConf(opts, ChatReset(heap[h]), made)
               /\ Ingested("chat", h, TRUE, heap[h].n_past,
                           ChatIngest(ao.st, fmt_len, mt, ok),
                           cb, stops, scr)

\* the objects and the state block Llama_Init_Cmd leaves once the model is
\* loaded and the context created
InitSession(n_ctx, mk) ==
    LET mk1 == Make(mk, "model", <<>>)
        mk2 == Make(mk1, "ctx", <<>>)
        st == [set_defaults(n_ctx) EXCEPT !.model = Len(mk1), !.ctx = Len(mk2)]
    IN  apply_options(NullOptions, st, mk2)

\* a context-creation failure that returns without freeing the model
InitFailedKeepModel(mk) == Make(mk, "model", <<>>)

\* the model was loaded and llama_init_from_model failed: llama_model_free
\* (the state block is taken and given back with ckfree inside the call)
InitFailed(mk) == Dispose(Make(mk, "model", <<>>), Len(mk) + 1)

\* Llama_Init_Cmd.  arg: the optional n_ctx argument (<<>>: absent); a: the
\* block ckalloc returns; loaded, created: outcomes of the model load and of
\* the context creation
Llama_Init_Cmd(arg, a, loaded, created) ==
    /\ pc' = "idle"
    /\ UNCHANGED <<released, cur>>
    /\ Forget
    /\ call' = NoCall
    /\ IF arg # <<>> /\ (arg[1] < MIN_N_CTX \/ arg[1] > MAX_N_CTX)
       THEN /\ result' = Result("init", 0, FALSE, TCL_ERROR,
                                "n_ctx must be between 512 and 32768", <<>>)
            /\ conf' = NoConf
            /\ UNCHANGED <<cmds, heap, made>>
       ELSE /\ ~heap[a].alloc
            /\ IF ~loaded
               THEN /\ result' = Result("init", 0, FALSE, TCL_ERROR,
                                        "Failed to load model", <<>>)
                    /\ conf' = NoConf
                    /\ UNCHANGED <<cmds, heap, made>>
               ELSE IF ~created
               THEN /\ result' = Result("init", 0, FALSE, TCL_ERROR,
                                        "Failed to create context", <<>>)
                    /\ made' = InitFailed(made)
                    /\ conf' = NoConf
                    /\ UNCHANGED <<cmds, heap>>
               ELSE \E ao \in {InitSession(IF arg # <<>> THEN arg[1]
                                                         ELSE DEFAULT_N_CTX, made)} :
                    /\ heap' = [heap EXCEPT ![a] = ao.st]
                    /\ made' = ao.made
                    /\ conf' = Conf(NullOptions, [ao.st EXCEPT !.sampler = 0], ao.st)
                    /\ cmds' = cmds \cup {a}
                    /\ result' = Result("init", a, FALSE, TCL_OK, "", <<>>)

\* Llama_Free_Cmd without its llama_sampler_free
FreeObjectsNoSampler(st, mk) ==
    LET mk1 == IF st.ctx # 0 THEN Dispose(mk, st.ctx) ELSE mk
    IN  IF st.model # 0 THEN Dispose(mk1, st.model) ELSE mk1

\* the llama_free, llama_model_free and llama_sampler_free calls of
\* Llama_Free_Cmd, each made when the pointer is not null
FreeObjects(st, mk) ==
    LET mk1 == IF st.ctx # 0 THEN Dispose(mk, st.ctx) ELSE mk
        mk2 == IF st.model # 0 THEN Dispose(mk1, st.model) ELSE mk1
    IN  IF st.sampler # 0 THEN Dispose(mk2, st.sampler) ELSE mk2

Llama_Free_Cmd(h) ==
    /\ UNCHANGED cur
    /\ Forget
    /\ call' = NoCall
    /\ conf' = NoConf
    /\ IF ~CommandExists(h)
       THEN /\ InvalidHandle("free", h)
            /\ UNCHANGED <<cmds, heap, released, made>>
       ELSE IF h = VersionCmd
       THEN /\ NotASession("free", h)
            /\ UNCHANGED <<cmds, heap, released, made>>
       ELSE /\ made' = FreeObjects(heap[h], made)
            /\ heap' = [heap EXCEPT ![h] = FreeBlock]
            /\ cmds' = cmds \ {h}
            /\ released' = released \cup {h}
            /\ result' = Result("free", h, h \in released, TCL_OK, "", <<>>)
            /\ pc' = "idle"

\* a clear that resets the position and the cache and leaves the telemetry
ClearPositionOnly(st) == [st EXCEPT !.n_past = 0, !.kv = 0]

\* llama_kv_self_clear, n_past = 0 and the telemetry reset of Llama_ClearCache_Cmd
ClearSession(st) ==
    [st EXCEPT !.kv = 0, !.n_past = 0, !.t_eval_ms = 0, !.t_gen_ms = 0,
               !.n_eval = 0, !.n_gen = 0]

Llama_ClearCache_Cmd(h) ==
    /\ UNCHANGED <<cmds, released, cur, made>>
    /\ Forget
    /\ call' = NoCall
    /\ conf' = NoConf
    /\ IF ~CommandExists(h)
       THEN /\ InvalidHandle("clear_cache", h)
            /\ UNCHANGED heap
       ELSE IF h = VersionCmd
       THEN /\ NotASession("clear_cache", h)
            /\ UNCHANGED heap
       ELSE /\ heap' = [heap EXCEPT ![h] = ClearSession(@)]
            /\ result' = Result("clear_cache", h, h \in released, TCL_OK, "", <<>>)
            /\ pc' = "idle"

\* the commands that only read the Session: llama::get_context, llama::info,
\* llama::tokenize, llama::detokenize and llama::verbose without a value
ReadOps == {"get_context", "info", "tokenize", "detokenize", "verbose"}

Llama_Read_Cmd(op, h) ==
    /\ UNCHANGED <<cmds, heap, released, cur, made>>
    /\ Forget
    /\ call' = NoCall
    /\ conf' = NoConf
    /\ IF ~CommandExists(h)
       THEN InvalidHandle(op, h)
       ELSE IF h = VersionCmd
       THEN NotASession(op, h)
       ELSE /\ result' = [Result(op, h, h \in released, TCL_OK, "", <<>>)
                           EXCEPT !.info = IF op = "info" THEN InfoDict(heap[h])
                                                          ELSE NoInfo]
            /\ pc' = "idle"

\* Tcl_EvalObjEx runs the callback in the interpreter of the call, where the
\* llama:: commands are registered: the callback's script can issue one on
\* the handle of the running call.  llama::clear_cache from the callback:
CallbackClearCache ==
    /\ pc \in {"cb_tag", "cb_margin", "cb_final"}
    /\ UNCHANGED <<g_contexts, g_next_id, evp, held, retired, sha_result>>
    /\ call.nested = "none"
    /\ Tcl_GetCommandInfo(cur)
    /\ heap' = [heap EXCEPT ![cur] = ClearSession(@)]
    /\ call' = [call EXCEPT !.nested = "clear_cache"]
    /\ UNCHANGED <<made, conf, cmds, released, nops, ncalls, pc, cur, cb_name,
                   stop_ids, script, id, text_buffer, resp, p_cnt, max_tokens,
                   safe_len, frag, sink, result>>

\* llama::free from the callback: the state block of the running call is
\* released under it
CallbackFree ==
    /\ pc \in {"cb_tag", "cb_margin", "cb_final"}
    /\ UNCHANGED <<g_contexts, g_next_id, evp, held, retired, sha_result>>
    /\ call.nested = "none"
    /\ Tcl_GetCommandInfo(cur)
    /\ made' = FreeObjects(heap[cur], made)
    /\ heap' = [heap EXCEPT ![cur] = FreeBlock]
    /\ cmds' = cmds \ {cur}
    /\ released' = released \cup {cur}
    /\ call' = [call EXCEPT !.nested = "free"]
    /\ pc' = "dangling"
    /\ UNCHANGED <<conf, nops, ncalls, cur, cb_name, stop_ids, script, id,
                   text_buffer, resp, p_cnt, max_tokens, safe_len, frag, sink, result>>

\* run_inference goes on after the callback with a pointer to the released
\* block: every later read or write of state is a use after free
UseAfterFree ==
    /\ pc = "dangling"
    /\ UNCHANGED <<g_contexts, g_next_id, evp, held, retired, sha_result>>
    /\ \E outcome \in {"killed", "returned"} :
         /\ pc' = IF outcome = "killed" THEN "undefined" ELSE "idle"
         /\ result' = Result(call.op, call.h, call.stale, TCL_OK, outcome, <<>>)
    /\ UNCHANGED <<made, conf, cmds, heap, released, nops, ncalls, cur, cb_name,
                   stop_ids, script, id, text_buffer, resp, p_cnt, max_tokens,
                   safe_len, frag, sink, call>>

(* ---------------------------------------------------------------------- *)
(* Specifications                                                           *)
(* ---------------------------------------------------------------------- *)
IdleLocals ==
    /\ pc = "idle"
    /\ cb_name = FALSE
    /\ stop_ids = {}
    /\ script = <<>>
    /\ id = EogTok
    /\ text_buffer = <<>>
    /\ resp = <<>>
    /\ p_cnt = 0
    /\ max_tokens = 0
    /\ safe_len = 0
    /\ frag = <<>>
    /\ sink = <<>>
    /\ call = NoCall
    /\ result = NoResult
    /\ conf = NoConf

\* the interpreter after Tclllama_Init: no Session yet
Init ==
    /\ cmds = {}
    /\ heap = [a \in Addr |-> FreeBlock]
    /\ released = {}
    /\ nops = 0
    /\ ncalls = 0
    /\ cur = 1
    /\ made = <<>>
    /\ IdleLocals
    /\ g_contexts = [i \in Slots |-> ZeroSlot]
    /\ g_next_id = 1
    /\ evp = <<>>
    /\ held = {}
    /\ retired = {}
    /\ sha_result = ShaResult("none", TCL_OK, "", 0)

NCtxArgs == { <<MIN_N_CTX - 1>>, <<MIN_N_CTX>> }
PromptLens == {1, MIN_N_CTX - 2, MIN_N_CTX + 88}
SystemLens == {0}
StopSets == { {}, {StopTok.id} }
MaxTokArgs == { <<>> }
BudgetArgs == { <<>> } \cup { <<n>> : n \in 1..MaxPredict }

LoopNext ==
    \/ LoopHead
    \/ CallbackTag
    \/ CallbackMargin
    \/ Decode
    \/ FinalFlush
    \/ CallbackFinal

\* the commands a script can issue between two calls
InitAny ==
    /\ NewCmd(MaxOps)
    /\ \E arg \in NCtxArgs, a \in Addr, loaded \in BOOLEAN, created \in BOOLEAN :
          Llama_Init_Cmd(arg, a, loaded, created)

FreeAny == NewCmd(MaxOps) /\ \E h \in Handles : Llama_Free_Cmd(h)

ClearAny == NewCmd(MaxOps) /\ \E h \in Handles : Llama_ClearCache_Cmd(h)

ReadAny ==
    NewCmd(MaxOps) /\ \E h \in Handles, op \in ReadOps : Llama_Read_Cmd(op, h)

GenerateAny ==
    /\ NewCall(MaxOps, MaxCalls)
    /\ \E h \in Handles, lp \in PromptLens, ls \in SystemLens, reset \in BOOLEAN,
          cb \in BOOLEAN, mt \in MaxTokArgs, scr \in SmallScripts :
          Llama_Generate_Cmd(h, lp, ls, reset, cb, {}, <<>>, mt, scr)

ChatAny ==
    /\ NewCall(MaxOps, MaxCalls)
    /\ \E h \in Handles, fmt_len \in {-1} \cup PromptLens, cb \in BOOLEAN,
          mt \in MaxTokArgs, scr \in SmallScripts :
          Llama_Chat(h, fmt_len, cb, {}, <<>>, mt, scr)

Next ==
    \/ InitAny
    \/ FreeAny
    \/ ClearAny
    \/ ReadAny
    \/ GenerateAny
    \/ ChatAny
    \/ LoopNext

Spec == Init /\ [][Next]_vars

\* one Session, created with the smallest context, and one generate call on it
InitGen ==
    /\ cmds = {1}
    /\ heap = [a \in Addr |-> IF a = 1 THEN InitSession(MIN_N_CTX, <<>>).st
                                       ELSE FreeBlock]
    /\ made = InitSession(MIN_N_CTX, <<>>).made
    /\ released = {}
    /\ nops = 0
    /\ ncalls = 0
    /\ cur = 1
    /\ IdleLocals
    /\ g_contexts = [i \in Slots |-> ZeroSlot]
    /\ g_next_id = 1
    /\ evp = <<>>
    /\ held = {}
    /\ retired = {}
    /\ sha_result = ShaResult("none", TCL_OK, "", 0)

GenerateOne ==
    /\ NewCall(1, 1)
    /\ \E lp \in {1, MIN_N_CTX - 3}, cb \in BOOLEAN, stops \in StopSets,
          mt \in BudgetArgs, scr \in RichScripts :
          Llama_Generate_Cmd(1, lp, 0, FALSE, cb, stops, <<>>, mt, scr)

ChatOne ==
    /\ NewCall(1, 1)
    /\ \E cb \in BOOLEAN, stops \in StopSets, mt \in BudgetArgs, scr \in RichScripts :
          Llama_Chat(1, 1, cb, stops, <<>>, mt, scr)

NextGen ==
    \/ GenerateOne
    \/ ChatOne
    \/ LoopNext

SpecGen == InitGen /\ [][NextGen]_vars

\* successive generate calls on one Session, each with any combination of the
\* call's options
TurnSystemLens == {0, 3}
TurnMaxTokArgs == { <<>>, <<1>> }

GenerateTurn ==
    /\ NewCall(MaxOps, MaxCalls)
    /\ \E lp \in PromptLens, ls \in TurnSystemLens, reset \in BOOLEAN,
          cb \in BOOLEAN, stops \in StopSets, mt \in TurnMaxTokArgs,
          scr \in SmallScripts :
          Llama_Generate_Cmd(1, lp, ls, reset, cb, stops, <<>>, mt, scr)

ChatTurn ==
    /\ NewCall(MaxOps, MaxCalls)
    /\ \E fmt_len \in {-1} \cup PromptLens, cb \in BOOLEAN, scr \in SmallScripts :
          Llama_Chat(1, fmt_len, cb, {}, <<>>, <<>>, scr)

NextTurns ==
    \/ GenerateTurn
    \/ ChatTurn
    \/ LoopNext

SpecTurns == InitGen /\ [][NextTurns]_vars

\* Sessions created, configured through -options and released
OptV(n) == [ok |-> TRUE, v |-> n]
BadV == [ok |-> FALSE, v |-> 0]

ConfOptions ==
    { <<>>,
      << Options(<<>>) >>,
      << Options(("temperature" :> OptV(500)) @@ ("top_k" :> OptV(0))
                 @@ ("top_p" :> OptV(150)) @@ ("min_p" :> OptV(-20))) >>,
      << Options(("temperature" :> OptV(-30)) @@ ("top_p" :> OptV(-10))
                 @@ ("min_p" :> OptV(180)) @@ ("repeat_penalty" :> OptV(-100))
                 @@ ("num_predict" :> OptV(-7))) >>,
      << Options(("mirostat" :> OptV(1)) @@ ("seed" :> OptV(7))) >>,
      << Options(("mirostat" :> OptV(2)) @@ ("mirostat_tau" :> OptV(300))
                 @@ ("mirostat_eta" :> OptV(20)) @@ ("repeat_last_n" :> OptV(32))) >>,
      << Options(("temperature" :> BadV) @@ ("top_k" :> OptV(10))) >>,
      << Options("mirostat" :> OptV(3)) >> }

ConfMaxTokArgs == { <<>>, <<-5>> }

\* the backend emits one token of one byte, then the end of generation
ConfScript == << Tok(97, <<97>>) >>

ConfGenerate ==
    /\ NewCall(MaxOps, MaxCalls)
    /\ \E opts \in ConfOptions, mt \in ConfMaxTokArgs :
          Llama_Generate_Cmd(1, 1, 0, FALSE, FALSE, {}, opts, mt, ConfScript)

ConfChat ==
    /\ NewCall(MaxOps, MaxCalls)
    /\ \E opts \in ConfOptions :
          Llama_Chat(1, 1, FALSE, {}, opts, <<>>, ConfScript)

NextConf ==
    \/ ConfGenerate
    \/ ConfChat
    \/ LoopHead
    \/ Decode
    \/ FinalFlush

SpecConf == InitGen /\ [][NextConf]_vars

\* Sessions created, configured and released in any order
LifeOptions == { <<>>, << Options(("mirostat" :> OptV(1)) @@ ("seed" :> OptV(7))) >> }

LifeInit ==
    /\ NewCmd(MaxOps)
    /\ \E arg \in NCtxArgs, a \in Addr, loaded \in BOOLEAN, created \in BOOLEAN :
          Llama_Init_Cmd(arg, a, loaded, created)

LifeFree == NewCmd(MaxOps) /\ \E h \in Addr : Llama_Free_Cmd(h)

LifeConfigure ==
    /\ NewCall(MaxOps, MaxCalls)
    /\ \E h \in Addr, opts \in LifeOptions :
          Llama_Chat(h, 1, FALSE, {}, opts, <<>>, ConfScript)

NextLife ==
    \/ LifeInit
    \/ LifeFree
    \/ LifeConfigure
    \/ LoopHead
    \/ Decode
    \/ FinalFlush

SpecLife == Init /\ [][NextLife]_vars

\* one generate call whose callback may issue a command on the call's handle
GenerateCallback ==
    /\ NewCall(1, 1)
    /\ \E mt \in BudgetArgs, scr \in SmallScripts :
          Llama_Generate_Cmd(1, 1, 0, FALSE, TRUE, {}, <<>>, mt, scr)

NextReent ==
    \/ GenerateCallback
    \/ LoopNext
    \/ CallbackClearCache
    \/ CallbackFree
    \/ UseAfterFree

SpecReent == InitGen /\ [][NextReent]_vars

\* one generate call on token sequences that put the buffer logic to the
\* test: a NUL byte followed by text, two markers in one piece, a marker cut
\* short by the end of generation, and plain text under the budgets 0 and 2
NulTok == Tok(1010, <<0>>)

TextScripts ==
    { <<NulTok>> \o Fill(LongPre),
      << Tok(1011, TAG_IM_END \o TAG_END_OF_TURN) >>,
      << Tok(97, <<97>>), Tok(1012, SubstrTo(TAG_ENDOFTEXT, Len(TAG_ENDOFTEXT) - 1)) >>,
      << Tok(97, <<97>>), Tok(1008, SubstrTo(TAG_EOT_ID, 5)) >>,
      Fill(MaxPredict) }

TextBudgets == { <<>>, <<0>>, <<2>> }

TextGenerate ==
    /\ NewCall(1, 1)
    /\ \E cb \in BOOLEAN, mt \in TextBudgets, scr \in TextScripts :
          Llama_Generate_Cmd(1, 1, 0, FALSE, cb, {}, <<>>, mt, scr)

NextText ==
    \/ TextGenerate
    \/ LoopNext

SpecText == InitGen /\ [][NextText]_vars

\* one generate call on pieces of several lengths: a long piece with a marker
\* k bytes into it, and single characters that spell a marker after text
MarkerOffsets == {5, 10, 30}

LongMarkerPiece(k) ==
    Tok(1013, Run(k) \o TAG_END_OF_TURN \o Run(LongPiece - Len(TAG_END_OF_TURN) - k))

PieceScripts ==
    { <<LongMarkerPiece(k)>> : k \in MarkerOffsets }
        \cup { Fill(LongPre) \o Chars(TAG_IM_END) }

PieceGenerate ==
    /\ NewCall(1, 1)
    /\ \E cb \in BOOLEAN, scr \in PieceScripts :
          Llama_Generate_Cmd(1, 1, 0, FALSE, cb, {}, <<>>, <<>>, scr)

NextPieces ==
    \/ PieceGenerate
    \/ LoopNext

SpecPieces == InitGen /\ [][NextPieces]_vars

\* one Session on which calls, llama::clear_cache and llama::info alternate
ClearPromptLens == {1, MIN_N_CTX - 2}

ClearGenerate ==
    /\ NewCall(MaxOps, MaxCalls)
    /\ \E lp \in ClearPromptLens, cb \in BOOLEAN, scr \in SmallScripts :
          Llama_Generate_Cmd(1, lp, 0, FALSE, cb, {}, <<>>, <<>>, scr)

ClearChat ==
    /\ NewCall(MaxOps, MaxCalls)
    /\ \E scr \in SmallScripts : Llama_Chat(1, 1, FALSE, {}, <<>>, <<>>, scr)

ClearClear == NewCmd(MaxOps) /\ Llama_ClearCache_Cmd(1)

ClearInfo == NewCmd(MaxOps) /\ Llama_Read_Cmd("info", 1)

NextClear ==
    \/ ClearGenerate
    \/ ClearChat
    \/ ClearClear
    \/ ClearInfo
    \/ LoopNext

SpecClear == InitGen /\ [][NextClear]_vars

\* ---------------------------------------------------------------------------
\* Specification: generate and chat calls on one Session with and without
\* -max_tokens and -options; a chat call may carry a messages argument that is
\* not a list
\* ---------------------------------------------------------------------------
StoreGenerate ==
    /\ NewCall(MaxOps, MaxCalls + 1)
    /\ \E opts \in { <<>>, << Options(<<>>) >>, << Options("num_predict" :> OptV(3)) >> },
          mt \in { <<>>, <<2>>, <<-5>> } :
          Llama_Generate_Cmd(1, 1, 0, FALSE, FALSE, {}, opts, mt, ConfScript)

StoreChat ==
    /\ NewCall(MaxOps, MaxCalls + 1)
    /\ \E fmt_len \in {1, BadMessages},
          opts \in { <<>>, << Options("num_predict" :> OptV(3)) >> },
          mt \in { <<>>, <<2>> } :
          Llama_Chat(1, fmt_len, FALSE, {}, opts, mt, ConfScript)

NextStore ==
    \/ StoreGenerate
    \/ StoreChat
    \/ LoopHead
    \/ Decode
    \/ FinalFlush

SpecStore == InitGen /\ [][NextStore]_vars

\* ---------------------------------------------------------------------------
\* Specification: the sha256 commands, from a registry that is empty, one that
\* has a single slot left, and an empty one whose id counter has reached its
\* largest value
\* ---------------------------------------------------------------------------
\* the registry after k sha256::init calls with none finalized, ids from
\* first on; held and retired: the handles the script keeps from before
ShaStart ==
    /\ cmds = {}
    /\ heap = [a \in Addr |-> FreeBlock]
    /\ released = {}
    /\ nops = 0
    /\ ncalls = 0
    /\ cur = 1
    /\ made = <<>>
    /\ IdleLocals
    /\ \E s \in { [k |-> 0, first |-> 1, held |-> {}, retired |-> {}],
                  [k |-> MAX_CONTEXTS - 1, first |-> 1, held |-> {1}, retired |-> {}],
                  [k |-> 0, first |-> ULONG_MAX, held |-> {1}, retired |-> {1}] } :
          /\ g_contexts = [i \in Slots |->
                              IF i < s.k
                              THEN [ctx |-> i + 1, in_use |-> TRUE, id |-> s.first + i]
                              ELSE ZeroSlot]
          /\ g_next_id = s.first + s.k
          /\ evp = [c \in 1..s.k |-> [frees |-> 0]]
          /\ held = s.held
          /\ retired = s.retired
    /\ sha_result = ShaResult("none", TCL_OK, "", 0)

NextSha ==
    \/ Sha256Init_Cmd
    \/ Sha256Update_Cmd
    \/ Sha256Final_Cmd
    \/ Sha256Cleanup_Cmd

SpecSha == ShaStart /\ [][NextSha]_vars


(* ---------------------------------------------------------------------- *)
(* Vocabulary of the properties                                             *)
(* ---------------------------------------------------------------------- *)
RECURSIVE Flatten(_)
\* the fragments handed to the callback, concatenated in order
Flatten(frags) ==
    IF frags = <<>> THEN <<>> ELSE Head(frags).frag \o Flatten(Tail(frags))

IsPrefix(p, s) == Len(p) <= Len(s) /\ SubSeq(s, 1, Len(p)) = p

\* positions (0-based) at which some known marker starts in text
MarkerStarts(text) == UNION { Occurrences(text, tags[i]) : i \in 1..Len(tags) }

\* text up to, and excluding, the earliest marker in it
BeforeMarker(text) ==
    IF MarkerStarts(text) = {} THEN text ELSE SubstrTo(text, Min(MarkerStarts(text)))

IsContinuation(b) == b >= 128 /\ b < 192
IsLead(b) == b >= 192 /\ b < 248

\* f starts in the middle of a multi-byte character
BeginsIncomplete(f) == f # <<>> /\ IsContinuation(f[1])

\* f stops in the middle of a multi-byte character
EndsIncomplete(f) ==
    \E k \in 1..3 :
        /\ k <= Len(f)
        /\ IsLead(f[Len(f) - k + 1])
        /\ utf8_char_length(f[Len(f) - k + 1]) > k
        /\ \A j \in (Len(f) - k + 2)..Len(f) : IsContinuation(f[j])

CallOps == {"generate", "chat"}

\* a generate or chat call has just returned
Returned == pc = "idle" /\ result.op \in CallOps /\ call.op = result.op

\* every accepted piece of the call was one byte long
SingleBytePieces == call.n_acc = Len(call.acc_text)

(* ---------------------------------------------------------------------- *)
(* C1: when single-character pieces spell a known marker after marker-free  *)
(* text, the loop stops at the token completing the marker, no byte of the  *)
(* marker reaches the callback or the returned text, and the completing     *)
(* token is not decoded (the position does not advance for it).             *)
(* ---------------------------------------------------------------------- *)
C1_SplitMarkerNeverDelivered ==
    (call.found_tag /\ SingleBytePieces) =>
        /\ pc \in {"cb_tag", "final", "cb_final", "idle"}
        /\ IsPrefix(Flatten(sink), BeforeMarker(call.acc_text))
        /\ IsPrefix(resp, BeforeMarker(call.acc_text))
        /\ p_cnt = call.n_acc - 1
        /\ heap[cur].n_past = call.pos_ing + call.n_tok + call.n_acc - 1

(* ---------------------------------------------------------------------- *)
(* C2: no fragment handed to the callback, at the marker-prefix flush, a    *)
(* margin flush or the final flush, begins or ends inside a multi-byte      *)
(* UTF-8 character.                                                         *)
(* ---------------------------------------------------------------------- *)
C2_FragmentsOnCharBoundaries ==
    \A i \in 1..Len(sink) :
        ~BeginsIncomplete(sink[i].frag) /\ ~EndsIncomplete(sink[i].frag)

(* ---------------------------------------------------------------------- *)
(* C3: when a call returns successfully and its final flush was not         *)
(* dropped, the fragments handed to the callback, concatenated in order,    *)
(* are the accepted pieces up to, and excluding, a detected marker.         *)
(* ---------------------------------------------------------------------- *)
C3_FragmentsReconstructText ==
    (Returned /\ result.code = TCL_OK /\ cb_name /\ ~call.dropped) =>
        Flatten(sink) = BeforeMarker(call.acc_text)


(* ---------------------------------------------------------------------- *)
(* C4: the position of every live Session lies between 0 and its context   *)
(* capacity, whatever commands have run.                                    *)
(* ---------------------------------------------------------------------- *)
C4_PositionWithinCapacity ==
    \A a \in cmds : 0 <= heap[a].n_past /\ heap[a].n_past <= heap[a].n_ctx

\* the generate or chat call just returned was given more tokens than fit
Overflowing(op) ==
    /\ Returned
    /\ result.op = op
    /\ call.n_tok >= 0
    /\ call.pos_ing + call.n_tok >= heap[call.h].n_ctx

(* ---------------------------------------------------------------------- *)
(* C5 as claimed: a generate call whose prompt does not fit fails with a    *)
(* context-overflow error before any decode, and the position after the     *)
(* call is the position before the call, whatever the call's options.       *)
(* ---------------------------------------------------------------------- *)
C5_OverflowKeepsCallerPosition ==
    Overflowing("generate") =>
        /\ result.code = TCL_ERROR
        /\ result.msg = "Context overflow"
        /\ call.decodes = 0
        /\ heap[call.h].n_past = call.pos0

(* ---------------------------------------------------------------------- *)
(* C5 as amended: a generate call whose prompt does not fit fails with a    *)
(* context-overflow error before any decode, and the position after the     *)
(* call is the position at ingestion: 0 when -reset was given, otherwise    *)
(* the position before the call.                                            *)
(* ---------------------------------------------------------------------- *)
C5_OverflowKeepsIngestPosition ==
    Overflowing("generate") =>
        /\ result.code = TCL_ERROR
        /\ result.msg = "Context overflow"
        /\ call.decodes = 0
        /\ heap[call.h].n_past = (IF call.reset THEN 0 ELSE call.pos0)

\* an overflowing generate call with -reset on a Session that had advanced
C5_Witness ==
    /\ Overflowing("generate")
    /\ result.msg = "Context overflow"
    /\ call.reset
    /\ call.pos0 > 0

(* ---------------------------------------------------------------------- *)
(* C6: a chat call whose rendered messages do not fit fails with a          *)
(* context-overflow error and attempts no decode.                           *)
(* ---------------------------------------------------------------------- *)
C6_ChatOverflowRejected ==
    Overflowing("chat") =>
        /\ result.code = TCL_ERROR
        /\ result.msg = "Context overflow"
        /\ call.decodes = 0

(* ---------------------------------------------------------------------- *)
(* C7: ingestion advances the position by the number of tokens submitted,   *)
(* and only when the batched decode succeeded: after a failed decode the    *)
(* call reports the decode failure with the position it had before the      *)
(* batch.                                                                   *)
(* ---------------------------------------------------------------------- *)
C7_IngestCommitsAfterDecode ==
    /\ (pc = "loop" /\ p_cnt = 0) =>
          heap[cur].n_past = call.pos_ing + call.n_tok
    /\ (Returned /\ result.msg = "Decode failed") =>
          /\ result.code = TCL_ERROR
          /\ heap[call.h].n_past = call.pos_ing

(* ---------------------------------------------------------------------- *)
(* C8: when a single-token decode fails inside the loop the call reports    *)
(* the decode failure and the position is the one after ingestion plus the  *)
(* number of generated tokens whose decode succeeded.                       *)
(* ---------------------------------------------------------------------- *)
C8_LoopDecodeFailureKeepsPosition ==
    (Returned /\ result.msg = "Decode failed during generation") =>
        /\ result.code = TCL_ERROR
        /\ heap[call.h].n_past = call.pos_ing + call.n_tok + p_cnt

(* ---------------------------------------------------------------------- *)
(* C9: once the callback has failed on a fragment, whichever flush handed   *)
(* it over, nothing more is sampled, decoded or delivered and the call      *)
(* returns that failure.                                                    *)
(* ---------------------------------------------------------------------- *)
C9_SinkFailureAborts ==
    \A i \in 1..Len(sink) :
        ~sink[i].ok =>
            /\ i = Len(sink)
            /\ pc = "idle"
            /\ result.code = TCL_ERROR

(* ---------------------------------------------------------------------- *)
(* C10: a command given a handle that llama::free has released fails with   *)
(* the invalid-handle error, whatever commands ran in between, llama::init  *)
(* included.                                                                *)
(* ---------------------------------------------------------------------- *)
C10_ReleasedHandleRejected ==
    /\ (result.op # "none" /\ result.stale) =>
          (result.code = TCL_ERROR /\ result.msg = "Invalid handle")
    /\ pc # "idle" => ~call.stale

\* object i of made is held by a live Session
Held(i) == \E a \in cmds : i \in {heap[a].model, heap[a].ctx, heap[a].sampler}

Samplers == { i \in 1..Len(made) : made[i].kind = "sampler" }

(* ---------------------------------------------------------------------- *)
(* C11: over any sequence of create, configure and release calls every      *)
(* model, context and sampler chain is freed exactly once: none is freed     *)
(* twice, the objects of a live Session are not freed, the objects of no     *)
(* live Session have all been freed, and a released handle names no block.   *)
(* ---------------------------------------------------------------------- *)
C11_ObjectsFreedExactlyOnce ==
    /\ \A i \in 1..Len(made) :
          /\ made[i].frees <= 1
          /\ made[i].frees = 0 <=> Held(i)
    /\ \A a \in Addr : a \in cmds <=> heap[a].alloc
    /\ (result.op = "free" /\ result.code = TCL_OK) => result.h \notin cmds

\* a repeated release was refused after a Session whose chain had been
\* rebuilt was released
C11_Witness ==
    /\ result.op = "free"
    /\ result.stale
    /\ result.msg = "Invalid handle"
    /\ \E i, j \in Samplers : i # j /\ made[i].frees = 1 /\ made[j].frees = 1
    /\ \E i \in 1..Len(made) : made[i].kind = "ctx" /\ made[i].frees = 1

(* ---------------------------------------------------------------------- *)
(* C12: a handle-taking command given a name that is no live Session, the   *)
(* name of another command of the interpreter included, fails with the      *)
(* invalid-handle error and goes nowhere near a state block.                 *)
(* ---------------------------------------------------------------------- *)
C12_UnknownHandleRejected ==
    /\ pc # "undefined"
    /\ (result.op \notin {"none", "init"} /\ result.h = VersionCmd) =>
          (result.code = TCL_ERROR /\ result.msg = "Invalid handle")
    /\ (result.op \notin {"none", "init", "free"} /\ result.h \notin cmds) =>
          (result.code = TCL_ERROR /\ result.msg = "Invalid handle")

(* ---------------------------------------------------------------------- *)
(* C13: while a generate or chat call is in progress, its callback          *)
(* included, no clear or release on the same Session begins, and the        *)
(* Session is not released under the running loop.                           *)
(* ---------------------------------------------------------------------- *)
C13_NoCommandUnderRunningCall ==
    pc # "idle" =>
        /\ call.nested = "none"
        /\ cur \in cmds
        /\ heap[cur].alloc

(* ---------------------------------------------------------------------- *)
(* C14: on every successful return of a generate or chat call the position  *)
(* is the position at ingestion plus the prompt tokens plus the generated   *)
(* tokens that were decoded; a token that fired a shield tier or completed  *)
(* a marker was sampled but neither counted nor decoded.                     *)
(* ---------------------------------------------------------------------- *)
C14_PositionCountsAcceptedTokens ==
    (Returned /\ result.code = TCL_OK) =>
        LET gen == call.decodes - 1
            sampled == call.n_script - Len(script)
        IN  /\ heap[call.h].n_past = call.pos_ing + call.n_tok + gen
            /\ heap[call.h].kv = call.kv_ing + call.n_tok + gen
            /\ p_cnt = gen
            /\ gen <= sampled /\ sampled <= gen + 1
            /\ call.found_tag => sampled = gen + 1
            /\ EogTok.id \notin call.fed
            /\ CtrlTok.id \notin call.fed
            /\ call.fed \cap stop_ids = {}

\* a call returned after decoding tokens and meeting a stop token or a marker
C14_Witness ==
    /\ Returned
    /\ result.code = TCL_OK
    /\ p_cnt > 0
    /\ call.n_script - Len(script) = p_cnt + 1
    /\ (call.found_tag \/ id.ctrl \/ id.id \in stop_ids)

(* ---------------------------------------------------------------------- *)
(* C15: after apply_options with an options dictionary, whatever values it  *)
(* carries, temperature is in [0, 2], top_k >= 1, top_p and min_p are in     *)
(* [0, 1], repeat_penalty >= 0 (1.0 stored for a negative input) and         *)
(* num_predict >= -1.                                                        *)
(* ---------------------------------------------------------------------- *)
C15_OptionsWithinRange ==
    (conf.called /\ conf.options.given) =>
        /\ 0 <= conf.post.temp /\ conf.post.temp <= 200
        /\ conf.post.top_k >= 1
        /\ 0 <= conf.post.top_p /\ conf.post.top_p <= 100
        /\ 0 <= conf.post.min_p /\ conf.post.min_p <= 100
        /\ conf.post.repeat_penalty >= 0
        /\ conf.post.n_predict >= -1
        /\ ("repeat_penalty" \in DOMAIN conf.options.dict
              /\ conf.options.dict["repeat_penalty"].ok
              /\ conf.options.dict["repeat_penalty"].v < 0)
             => conf.post.repeat_penalty = 100

\* options with a temperature above 2.0 and a top_k of 0 were applied
C15_Witness ==
    /\ conf.called
    /\ conf.options.given
    /\ "temperature" \in DOMAIN conf.options.dict
    /\ conf.options.dict["temperature"].ok
    /\ conf.options.dict["temperature"].v > 200
    /\ "top_k" \in DOMAIN conf.options.dict
    /\ conf.options.dict["top_k"].v < 1
    /\ conf.post.temp = 200
    /\ conf.post.top_k = 1

(* ---------------------------------------------------------------------- *)
(* C16: every sampler chain has its stages in the order penalties, top-k,   *)
(* top-p, min-p, temperature, then mirostat when enabled, then the final     *)
(* distribution-sampling stage.                                              *)
(* ---------------------------------------------------------------------- *)
C16_ChainOrder ==
    \A i \in Samplers :
        \/ made[i].stages = <<"penalties", "top_k", "top_p", "min_p", "temp", "dist">>
        \/ made[i].stages = <<"penalties", "top_k", "top_p", "min_p", "temp",
                              "mirostat", "dist">>
        \/ made[i].stages = <<"penalties", "top_k", "top_p", "min_p", "temp",
                              "mirostat_v2", "dist">>

(* ---------------------------------------------------------------------- *)
(* C17: after any sequence of configure calls, those made through -options  *)
(* of generate and chat included, each live Session has exactly one sampler  *)
(* chain, which has not been disposed; every chain it had before has been    *)
(* disposed exactly once.                                                    *)
(* ---------------------------------------------------------------------- *)
C17_OneChainInstalled ==
    /\ \A a \in cmds :
          /\ heap[a].sampler \in Samplers
          /\ made[heap[a].sampler].frees = 0
    /\ \A i \in Samplers :
          /\ made[i].frees <= 1
          /\ made[i].frees = 0 => \E a \in cmds : heap[a].sampler = i
    /\ Cardinality({ i \in Samplers : made[i].frees = 0 }) = Cardinality(cmds)

\* the chain has been rebuilt twice, by a generate and by a chat call
C17_Witness ==
    /\ pc = "idle"
    /\ result.op = "chat"
    /\ conf.called
    /\ Cardinality(Samplers) >= 3
    /\ Cardinality({ i \in Samplers : made[i].frees = 1 }) >= 2

\* the options that are not in the dictionary of the last apply_options call,
\* or whose value does not convert
AbsentOptions ==
    { name \in OptNames : ~(/\ name \in DOMAIN conf.options.dict
                            /\ conf.options.dict[name].ok) }

\* position, telemetry, capacity and the backend objects other than the chain
FrameKept ==
    /\ conf.post.n_past = conf.pre.n_past
    /\ conf.post.n_eval = conf.pre.n_eval
    /\ conf.post.n_gen = conf.pre.n_gen
    /\ conf.post.n_ctx = conf.pre.n_ctx
    /\ conf.post.kv = conf.pre.kv
    /\ conf.post.model = conf.pre.model
    /\ conf.post.ctx = conf.pre.ctx

C19_SystemOnlyAtPositionZero ==
    call.op = "generate" =>
        /\ call.pos_ing = (IF call.reset THEN 0 ELSE call.pos0)
        /\ call.text = (IF call.ls > 0 /\ call.pos_ing = 0
                        THEN SystemText(call.ls) \o <<10, 10>> \o PromptText(call.lp)
                        ELSE PromptText(call.lp))
        /\ call.n_tok = Len(call.text) + (IF call.pos_ing = 0 THEN 1 ELSE 0)

\* a generate call with -system on a Session whose position is above 0
C19_Witness ==
    /\ call.op = "generate"
    /\ call.ls > 0
    /\ call.pos_ing > 0
    /\ call.text = PromptText(call.lp)

(* ---------------------------------------------------------------------- *)
(* C20: every chat call starts its ingestion at position 0 with an empty    *)
(* cache, whatever earlier calls left, so the rendered tokens occupy the     *)
(* positions from 0.                                                         *)
(* ---------------------------------------------------------------------- *)
C20_ChatStartsAtZero ==
    call.op = "chat" =>
        /\ call.pos_ing = 0
        /\ call.kv_ing = 0
        /\ (pc = "loop" /\ p_cnt = 0) =>
              (heap[cur].n_past = call.n_tok /\ heap[cur].kv = call.n_tok)

\* a chat call on a Session an earlier call left at a position above 0
C20_Witness ==
    /\ call.op = "chat"
    /\ call.pos0 > 0
    /\ call.kv0 > 0
    /\ pc = "loop"

\* llama::info reports position 0 and zero telemetry
InfoZero(d) ==
    /\ d.n_past = 0
    /\ d.n_ctx_used = 0
    /\ d.t_eval_ms = 0
    /\ d.t_gen_ms = 0
    /\ d.n_eval = 0
    /\ d.n_gen = 0

\* the command that has just completed is op on handle h, and it succeeded
Done(r, op, h) == r.op = op /\ r.h = h /\ r.code = TCL_OK

(* ---------------------------------------------------------------------- *)
(* C21: llama::clear_cache on a live Session, in whatever state earlier     *)
(* calls left it, leaves position 0 and the four telemetry fields zero; a    *)
(* llama::info that follows it reports these values; a second               *)
(* llama::clear_cache right after the first changes nothing.                 *)
(* ---------------------------------------------------------------------- *)
C21_ClearThenInfoZero ==
    [][ /\ Done(result', "clear_cache", 1) =>
              /\ heap'[1].n_past = 0
              /\ heap'[1].kv = 0
              /\ InfoZero(InfoDict(heap'[1]))
        /\ (pc = "idle" /\ Done(result, "clear_cache", 1) /\ Done(result', "info", 1)) =>
              /\ InfoZero(result'.info)
              /\ result'.info.n_ctx_available = heap[1].n_ctx
              /\ heap' = heap
        /\ (pc = "idle" /\ Done(result, "clear_cache", 1)
                /\ Done(result', "clear_cache", 1)) =>
              heap' = heap
      ]_vars

\* generate, then clear_cache, then info: the three commands issued so far,
\* the call having left the position above 0
C21_Witness ==
    /\ Done(result, "info", 1)
    /\ nops = 3
    /\ ncalls = 1
    /\ InfoZero(result.info)

(* ---------------------------------------------------------------------- *)
(* C22: a llama::init that fails, at the argument check, the model load or  *)
(* the context creation, registers no handle, leaves every state block and   *)
(* every object of the other Sessions as they were, and has freed whatever   *)
(* it created itself.                                                        *)
(* ---------------------------------------------------------------------- *)
C22_FailedInitLeavesNothing ==
    [][ (nops' = nops + 1 /\ result'.op = "init" /\ result'.code = TCL_ERROR) =>
            /\ result'.h = 0
            /\ cmds' = cmds
            /\ heap' = heap
            /\ Len(made') >= Len(made)
            /\ \A i \in 1..Len(made) : made'[i] = made[i]
            /\ \A i \in (Len(made) + 1)..Len(made') : made'[i].frees = 1
      ]_vars

\* the context creation failed while another Session was live
C22_Witness ==
    /\ result.op = "init"
    /\ result.msg = "Failed to create context"
    /\ cmds # {}
    /\ made # <<>>
    /\ made[Len(made)].kind = "model"
    /\ made[Len(made)].frees = 1

\* every fragment handed to the callback was taken without an error
SinkNeverFailed == \A i \in 1..Len(sink) : sink[i].ok

(* ---------------------------------------------------------------------- *)
(* C23: with a callback that never fails, the text a generate or chat call  *)
(* returns is the concatenation, in order, of the fragments handed to the    *)
(* callback (the returned text itself is built the same way with and         *)
(* without a callback).                                                      *)
(* ---------------------------------------------------------------------- *)
C23_ReturnedTextIsFragments ==
    (Returned /\ result.code = TCL_OK /\ cb_name /\ SinkNeverFailed) =>
        result.text = Flatten(sink)

(* ---------------------------------------------------------------------- *)
(* C24: when the sampled token is an end-of-generation token, a control     *)
(* token or one of the call's stop ids, the loop ends in that iteration:     *)
(* nothing is appended to the buffer or delivered, nothing is decoded and    *)
(* the position stays where it was.                                          *)
(* ---------------------------------------------------------------------- *)
C24_ShieldTokenEndsLoop ==
    [][ (/\ pc = "loop"
         /\ p_cnt < max_tokens
         /\ heap[cur].n_past < heap[cur].n_ctx
         /\ \/ Sample(script).eog
            \/ Sample(script).ctrl
            \/ Sample(script).id \in stop_ids) =>
            /\ pc' = "final"
            /\ id' = Sample(script)
            /\ text_buffer' = text_buffer
            /\ resp' = resp
            /\ sink' = sink
            /\ heap' = heap
            /\ p_cnt' = p_cnt
            /\ call' = call
      ]_vars

\* a stop id was sampled after text had been accepted, and the loop is over
C24_Witness ==
    /\ pc = "final"
    /\ id = StopTok
    /\ id.id \in stop_ids
    /\ p_cnt > 0
    /\ text_buffer # <<>>
    /\ heap[cur].n_past = call.pos_ing + call.n_tok + p_cnt

\* the places, counted from 1, of the bytes of every known marker in text
MarkerBytes(text) ==
    UNION { UNION { (p + 1)..(p + Len(tags[i])) : p \in Occurrences(text, tags[i]) } :
                i \in 1..Len(tags) }

(* ---------------------------------------------------------------------- *)
(* C25: whatever the lengths of the pieces, no byte of a known marker that  *)
(* occurs in the generated text is delivered: not by a margin flush, not by  *)
(* the flush before a marker and not by the final flush.                     *)
(* ---------------------------------------------------------------------- *)
C25_NoMarkerByteDelivered ==
    call.out \cap MarkerBytes(call.acc_text) = {}

(* ---------------------------------------------------------------------- *)
(* C26: when the scan finds the buffer to hold a marker, what is emitted is *)
(* the buffer up to the earliest place where any marker starts, cut back to  *)
(* a character boundary, so it holds no marker; the loop ends and the        *)
(* current token is not decoded.                                             *)
(* ---------------------------------------------------------------------- *)
C26_EmitsBeforeEarliestMarker ==
    call.found_tag =>
        LET m == Min(MarkerStarts(text_buffer))
        IN  /\ safe_len = find_last_utf8_boundary(SubstrTo(text_buffer, m), m)
            /\ MarkerStarts(SubstrTo(text_buffer, safe_len)) = {}
            /\ pc \in {"cb_tag", "final", "cb_final", "idle"}
            /\ heap[cur].n_past = call.pos_ing + call.n_tok + p_cnt

\* a known marker without its last byte occurs in buf
HoldsAlmostMarker(buf) ==
    \E i \in 1..Len(tags) : Find(buf, SubstrTo(tags[i], Len(tags[i]) - 1)) # NPOS

\* the first byte of a known marker occurs in buf
HoldsMarkerStart(buf) ==
    \E i \in 1..Len(tags) : Find(buf, SubstrTo(tags[i], 1)) # NPOS

(* ---------------------------------------------------------------------- *)
(* C27: when the loop ends without a marker match, the text left in the     *)
(* buffer is delivered if and only if it holds no prefix of any of the five  *)
(* markers.  Whatever lengths of prefix are meant, text holding a marker     *)
(* short of its last byte must be dropped, and text that is dropped must     *)
(* hold at least the first byte of a marker.                                 *)
(* ---------------------------------------------------------------------- *)
C27_FinalFlushUnlessMarkerPrefix ==
    (Returned /\ result.code = TCL_OK /\ ~call.found_tag /\ text_buffer # <<>>) =>
        /\ ~call.dropped => ~HoldsAlmostMarker(text_buffer)
        /\ call.dropped => HoldsMarkerStart(text_buffer)

\* the call went through ingestion and its generation loop has ended
LoopEnded ==
    /\ Returned
    /\ result.msg \in {"", "callback error", "Decode failed during generation"}

(* ---------------------------------------------------------------------- *)
(* C28: once the generation loop of a call has ended, by completion, by a   *)
(* decode failure or by a callback failure, the Session's n_gen is the       *)
(* number of tokens accepted in that call and t_gen_ms is the duration of    *)
(* that call's loop.                                                         *)
(* ---------------------------------------------------------------------- *)
C28_TelemetryDescribesCall ==
    LoopEnded =>
        /\ heap[call.h].n_gen = p_cnt
        /\ heap[call.h].t_gen_ms = ncalls

(* ---------------------------------------------------------------------- *)
(* C29: a generation loop accepts at most the configured budget when one is *)
(* set (n_predict >= 0) and at most 4096 tokens when none is (-1), and it    *)
(* never goes past the context capacity by more than the failed attempt.     *)
(* ---------------------------------------------------------------------- *)
C29_BudgetBoundsLoop ==
    LoopEnded =>
        /\ heap[call.h].n_predict >= 0 => p_cnt <= heap[call.h].n_predict
        /\ heap[call.h].n_predict = -1 => p_cnt <= DEFAULT_MAX_TOKENS

(* ---------------------------------------------------------------------- *)
(* C30: in every reachable state the stored token budget of every live      *)
(* Session is at least -1, whatever -options and -max_tokens values the      *)
(* calls carried.                                                            *)
(* ---------------------------------------------------------------------- *)
C30_BudgetAtLeastMinusOne ==
    \A a \in cmds : heap[a].n_predict >= -1

\* how many stages of chain i are the stage named
StageCount(i, stage) ==
    Cardinality({ k \in 1..Len(made[i].stages) : made[i].stages[k] = stage })

(* ---------------------------------------------------------------------- *)
(* C31: the chain installed on a Session holds the mirostat v1 stage        *)
(* exactly when the stored mirostat is 1 and the v2 stage exactly when it    *)
(* is 2, each once; for 0 and every other value it holds neither, and no     *)
(* chain ever built holds both.                                              *)
(* ---------------------------------------------------------------------- *)
C31_OneMirostatStage ==
    /\ \A a \in cmds :
          /\ StageCount(heap[a].sampler, "mirostat") =
                 (IF heap[a].mirostat = 1 THEN 1 ELSE 0)
          /\ StageCount(heap[a].sampler, "mirostat_v2") =
                 (IF heap[a].mirostat = 2 THEN 1 ELSE 0)
    /\ \A i \in Samplers :
          StageCount(i, "mirostat") + StageCount(i, "mirostat_v2") <= 1

\* the chain was rebuilt with a mirostat value that is neither 0, 1 nor 2
\* after a chain with a mirostat stage had been in place
C31_Witness ==
    /\ conf.called
    /\ conf.post.mirostat = 3
    /\ conf.pre.mirostat \in {1, 2}
    /\ StageCount(conf.pre.sampler, "mirostat")
           + StageCount(conf.pre.sampler, "mirostat_v2") = 1
    /\ StageCount(conf.post.sampler, "mirostat") = 0
    /\ StageCount(conf.post.sampler, "mirostat_v2") = 0

\* the most a margin flush leaves in the buffer: the margin and the three
\* bytes by which the boundary of a four-byte character can fall short of it
MaxRetained == FLUSH_MARGIN + 3

(* ---------------------------------------------------------------------- *)
(* C32: the streaming buffer never holds more than 50 bytes, at the marker  *)
(* scan or anywhere else; when an iteration goes on to its decode and when   *)
(* the next one starts it holds at most 23 bytes; a margin flush that emits  *)
(* anything emits a non-empty prefix and keeps between 20 and 23 bytes.      *)
(* ---------------------------------------------------------------------- *)
C32_BufferBounded ==
    /\ [](Len(text_buffer) <= BUFFER_SIZE)
    /\ [](pc \in {"loop", "decode"} => Len(text_buffer) <= MaxRetained)
    /\ [][ (pc = "loop" /\ pc' \in {"decode", "cb_margin"} /\ resp' # resp) =>
               LET kept == IF pc' = "cb_margin" THEN Len(text_buffer') - safe_len'
                                                ELSE Len(text_buffer')
               IN  /\ Len(resp') > Len(resp)
                   /\ kept >= FLUSH_MARGIN
                   /\ kept <= MaxRetained
         ]_vars

\* a margin flush has emitted one byte and kept 23: the flush point fell
\* inside a four-byte character
C32_Witness ==
    /\ pc = "decode"
    /\ Len(text_buffer) = MaxRetained
    /\ ~cb_name
    /\ Len(resp) = 1
    /\ SubSeq(text_buffer, 1, 4) = Utf8_4

\* ---------------------------------------------------------------------------
\* C33
\* ---------------------------------------------------------------------------
\* a generate or chat call on the Session has just been entered
CallEntered == ncalls' = ncalls + 1 /\ call'.op \in {"generate", "chat"} /\ call'.h = 1

\* the call just entered got as far as its option loop
ReachedOptionLoop == call'.lp # BadMessages

\* the budget a call that passes no -max_tokens leaves: the one it found,
\* unless its -options rewrote it
BudgetWithoutMaxTokens ==
    IF ~conf'.called THEN heap[1].n_predict
    ELSE IF "num_predict" \in DOMAIN conf'.options.dict THEN conf'.post.n_predict
    ELSE IF heap[1].n_predict < -1 THEN -1
    ELSE heap[1].n_predict

ULongLess(a, b) == IF (a < 0) = (b < 0) THEN a < b ELSE b < 0

\* a sha256 command of this name has just returned
ShaReturned(op) == nops' = nops + 1 /\ sha_result'.op = op

\* the sha256::init that has just returned got its digest context from OpenSSL
DigestReady ==
    sha_result'.msg \notin {"Failed to create context", "Failed to initialize digest"}

InUse(reg) == { i \in Slots : reg[i].in_use }

\* C34: every successful sha256::init returns an id greater than every id
\* given out before; no two slots in use hold the same id; sha256::update and
\* sha256::final on a handle that was finalized or swept fail with
\* 'Context not found', whatever sha256::init calls came in between
C34_IdsNeverComeBack ==
    /\ [](\A i, j \in InUse(g_contexts) : g_contexts[i].id = g_contexts[j].id => i = j)
    /\ [][ (ShaReturned("init") /\ sha_result'.code = TCL_OK) =>
              \A h \in held : ULongLess(h, sha_result'.id) ]_vars
    /\ [][ ((ShaReturned("update") \/ ShaReturned("final"))
            /\ sha_result'.msg # "Invalid handle" /\ sha_result'.id \in retired) =>
              sha_result'.msg = "Context not found" ]_vars

\* C35: at most 256 slots are in use; a sha256::init that finds 256 in use
\* fails with 'Too many contexts', frees its digest context and leaves the
\* registry and the id counter as they were; the sha256::init that follows a
\* sha256::final or sha256::cleanup that freed a slot succeeds
C35_FullRegistryRefusesThenAccepts ==
    /\ [](Cardinality(InUse(g_contexts)) <= MAX_CONTEXTS)
    /\ [][ (ShaReturned("init") /\ DigestReady /\ InUse(g_contexts) = Slots) =>
              /\ sha_result'.code = TCL_ERROR
              /\ sha_result'.msg = "Too many contexts"
              /\ evp'[Len(evp')].frees = 1
              /\ g_contexts' = g_contexts
              /\ g_next_id' = g_next_id ]_vars
    /\ [][ (ShaReturned("init") /\ DigestReady
            /\ \/ sha_result.op = "final"
                  /\ sha_result.msg \notin {"Invalid handle", "Context not found"}
               \/ sha_result.op = "cleanup" /\ sha_result.id > 0) =>
              sha_result'.code = TCL_OK ]_vars

====
